---------------------------- MODULE Spec2Model ----------------------------
(***************************************************************************)
(* A model of the CSP engine of tile-compile: Variable / Constraint / CSP  *)
(* (src/csp/cspbase.py), the propagators prop_BT, prop_fc and prop_gac     *)
(* (src/csp/propagators.py) and the backtracking driver                    *)
(* BacktrackingSearch (src/search/btsearch.py).                            *)
(*                                                                         *)
(* Conventions.                                                            *)
(*  - A Python set is iterated in an order the language does not fix.  The *)
(*    model draws one order of the variables (varOrder) and one of the     *)
(*    constraints (conOrder) in Init and iterates every set of variables,  *)
(*    resp. constraints, in that order.                                    *)
(*  - The mask dict of a Variable is iterated in the insertion order of    *)
(*    its keys; domOrder[v] is that order.                                 *)
(*  - GridVariableIterator asks every variable for get_exit_points() and   *)
(*    get_coords(); rank[v] is the summand its sort key derives from them  *)
(*    (0: has exit points, 1: a coordinate is 0, 2: neither).              *)
(*  - The state of all variables is passed through the propagators as a    *)
(*    record st = [cd |-> masks, av |-> assigned values, err |-> the       *)
(*    rejected assign / unassign calls].                                   *)
(***************************************************************************)
EXTENDS Integers, Sequences, FiniteSets, TLC

(***************************************************************************)
(* Bounds of the model.                                                    *)
(***************************************************************************)
MaxVal == 2
MaxCons == 2

VarNames == {"A", "B", "C"}

\* assignedValue of an unassigned variable (Python None)
None == 0
\* new_var of the root propagator call (Python None)
NoVar == "none"

VARIABLES
    vars,            \* csp.vars
    domain,          \* Variable.domain, per variable
    domOrder,        \* key order of Variable.cur_domain, per variable
    rank,            \* sort-key summand of GridVariableIterator, per variable
    varOrder,        \* iteration order of sets of variables
    conOrder,        \* csp.cons, in the iteration order of sets of constraints
    propagator,      \* the propagator handed to bt_search
    cur_domain,      \* Variable.cur_domain (the mask), per variable
    assignedValue,   \* Variable.assignedValue, per variable
    errors,          \* rejected assign / unassign calls so far
    unasgn_vars,     \* BacktrackingSearch.unasgn_vars
    stack,           \* active calls of bt_recurse, innermost last
    pc,              \* position of the driver
    ret,             \* value returned by the bt_recurse call that just ended
    status,          \* local `status` of bt_search
    rootPrunings,    \* local `prunings` of bt_search
    num_decisions,   \* BacktrackingSearch.num_decisions
    num_prunings,    \* BacktrackingSearch.num_prunings
    call,            \* history: the last propagator call: its argument, the state
                     \* before (pre) and after (post), its result, its number
    returned,        \* history: the bt_recurse call that just returned
    vars_to_cons,    \* csp.vars_to_cons: the constraints indexed under each variable
    op,              \* history: the last call of a Variable or CSP method made
                     \* from outside the search: its name and arguments, the
                     \* state before (pre) and after (post), whether it failed;
                     \* for a second call of bt_search, what the first left
    gac,             \* a call of prop_gac taken step by step: its position
                     \* and its locals
    cur_domain_flag, \* Variable.cur_domain_flag, per variable
    cur_domain_cache,\* Variable.cur_domain_cache, per variable; the two are
                     \* followed where the Variable methods are called from
                     \* outside, the search reads the current domain through
                     \* get_cur_domain
    sat_mappings,    \* Constraint.sat_mappings of every constraint: pairs
                     \* <<name of the constraint, mapping>>
    unsat_mappings   \* Constraint.unsat_mappings, likewise; the two are
                     \* followed where check_mapping and has_support are
                     \* called from outside

vars_all == <<vars, domain, domOrder, rank, varOrder, conOrder, propagator,
              cur_domain, assignedValue, errors, unasgn_vars, stack, pc, ret,
              status, rootPrunings, num_decisions, num_prunings, call,
              returned, vars_to_cons, op, gac, cur_domain_flag,
              cur_domain_cache, sat_mappings, unsat_mappings>>

\* the values of the variables of the CSP
Vals == UNION {domain[v] : v \in vars}

(***************************************************************************)
(* Sequences.                                                              *)
(***************************************************************************)
Range(s) == {s[i] : i \in 1..Len(s)}

Reverse(s) == [i \in 1..Len(s) |-> s[Len(s) + 1 - i]]

NoDup(s) == \A i, j \in 1..Len(s) : s[i] = s[j] => i = j

\* the element of a one-element set; The({e(x) : x \in {d}}) is e(d) with d
\* evaluated once
The(S) == CHOOSE x \in S : TRUE

Perms(S) == {s \in [1..Cardinality(S) -> S] : Range(s) = S}

\* Python sorted(s, key): stable, increasing in key[.]
SortedBy(s, key) ==
    LET n == Len(s)
        before(j, i) == key[s[j]] < key[s[i]] \/ (key[s[j]] = key[s[i]] /\ j < i)
        pos(i) == Cardinality({j \in 1..n : before(j, i)}) + 1
    IN  [p \in 1..n |-> s[CHOOSE i \in 1..n : pos(i) = p]]

\* Python sorted(s, key, reverse=True): stable, decreasing in key[.]
SortedByReverse(s, key) ==
    LET n == Len(s)
        before(j, i) == key[s[j]] > key[s[i]] \/ (key[s[j]] = key[s[i]] /\ j < i)
        pos(i) == Cardinality({j \in 1..n : before(j, i)}) + 1
    IN  [p \in 1..n |-> s[CHOOSE i \in 1..n : pos(i) = p]]

\* list(set(s)): the distinct elements of s
Dedup(s) == SelectSeq([i \in 1..Len(s) |-> [e |-> s[i], first |-> \A j \in 1..(i-1) : s[j] # s[i]]],
                      LAMBDA x : x.first)

DedupList(s) == [i \in 1..Len(Dedup(s)) |-> Dedup(s)[i].e]

\* iteration of a set of variables / of constraints
IterVars(S) == SelectSeq(varOrder, LAMBDA v : v \in S)
IterCons(S) == SelectSeq(conOrder, LAMBDA c : c \in S)

(***************************************************************************)
(* Variable (src/csp/cspbase.py).                                          *)
(***************************************************************************)
is_assigned(st, v) == st.av[v] # None

get_assigned_value(st, v) == st.av[v]

\* the values whose mask entry is set, in key order
MaskList(st, v) == SelectSeq(domOrder[v], LAMBDA x : st.cd[v][x])

\* a faulty get_cur_domain that reads the mask also when the variable is
\* assigned; C14 tells it apart
get_cur_domain_MaskOnly(st, v) == MaskList(st, v)

get_cur_domain(st, v) ==
    IF is_assigned(st, v) THEN <<get_assigned_value(st, v)>> ELSE MaskList(st, v)

get_cur_domain_size(st, v) ==
    IF is_assigned(st, v) THEN 1 ELSE Len(MaskList(st, v))

in_cur_domain(st, v, x) ==
    IF is_assigned(st, v) THEN x = get_assigned_value(st, v) ELSE st.cd[v][x]

\* a faulty unassign that accepts a variable that is not assigned; C18 tells
\* it apart
unassign_Unchecked(st, v) == [st EXCEPT !.av[v] = None]

unassign(st, v) ==
    IF ~is_assigned(st, v)
    THEN [st EXCEPT !.err = @ \cup {"unassign"}]
    ELSE [st EXCEPT !.av[v] = None]

\* a faulty assign that does not look at the current domain; C17 tells it
\* apart
assign_IgnoresMask(st, v, x) ==
    IF is_assigned(st, v) THEN [st EXCEPT !.err = @ \cup {"assign"}]
    ELSE [st EXCEPT !.av[v] = x]

\* a faulty assign that accepts a pruned value of the domain; C37 tells it
\* apart
assign_PrunedToo(st, v, x) ==
    IF is_assigned(st, v) THEN [st EXCEPT !.err = @ \cup {"assign"}]
    ELSE IF x \notin DOMAIN st.cd[v] THEN [st EXCEPT !.err = @ \cup {"KeyError"}]
    ELSE [st EXCEPT !.av[v] = x]

\* a value that is no key of the mask makes in_cur_domain raise KeyError
assign(st, v, x) ==
    IF is_assigned(st, v) THEN [st EXCEPT !.err = @ \cup {"assign"}]
    ELSE IF x \notin DOMAIN st.cd[v] THEN [st EXCEPT !.err = @ \cup {"KeyError"}]
    ELSE IF ~in_cur_domain(st, v, x) THEN [st EXCEPT !.err = @ \cup {"assign"}]
    ELSE [st EXCEPT !.av[v] = x]

prune_value(st, v, x) ==
    LET st1 == IF is_assigned(st, v) /\ get_assigned_value(st, v) = x
               THEN unassign(st, v) ELSE st
    IN  [st1 EXCEPT !.cd[v][x] = FALSE]

\* a faulty unprune_value that leaves the mask as it is; C3 tells it apart
unprune_value_Forgets(st, v, x) == st

unprune_value(st, v, x) == [st EXCEPT !.cd[v][x] = TRUE]

\* a faulty restore_cur_domain that leaves the mask as it is; C16 tells it
\* apart
restore_cur_domain_Forgets(st, v) == st

restore_cur_domain(st, v) == [st EXCEPT !.cd[v] = [x \in DOMAIN st.cd[v] |-> TRUE]]

(***************************************************************************)
(* Constraint (src/csp/cspbase.py).  A constraint is a record              *)
(* [name, scope, fn, x, y]: scope is the set of its variables, fn names    *)
(* its constraint_function and x, y are the variables the function reads   *)
(* by name.                                                                *)
(***************************************************************************)
Con(name, fn, scope, x, y) ==
    [name |-> name, fn |-> fn, scope |-> scope, x |-> x, y |-> y]

\* the constraint functions of the model; m maps the scope to values
constraint_function(c, m) ==
    CASE c.fn = "lt"      -> m[c.x] < m[c.y]
      [] c.fn = "neq"     -> m[c.x] # m[c.y]
      [] c.fn = "eq"      -> m[c.x] = m[c.y]
      [] c.fn = "ge2"     -> m[c.x] >= 2
      [] c.fn = "alldiff" -> \A u, w \in DOMAIN m : u # w => m[u] # m[w]
      [] c.fn = "never"   -> FALSE

\* sort key of GridVariableIterator.__init__
GridKey(st, v) == rank[v] + get_cur_domain_size(st, v)

\* the test of GridVariableIterator.__next__
GridFirst(v) == rank[v] < 2

\* GridVariableIterator.collection for the collection S
GridCollection(st, S) ==
    SortedByReverse(IterVars(S), [v \in S |-> GridKey(st, v)])

\* the variables in the order GridVariableIterator.__next__ yields them
GridVariableIterator(st, S) ==
    LET col == GridCollection(st, S)
    IN  SelectSeq(col, GridFirst) \o Reverse(SelectSeq(col, LAMBDA v : ~GridFirst(v)))

\* GridVariableIterator.pop
GridPop(st, S) == LET col == GridCollection(st, S) IN col[Len(col)]

get_scope(st, c) == GridVariableIterator(st, c.scope)

check(st, c) == constraint_function(c, [v \in c.scope |-> get_assigned_value(st, v)])

UnassignedIn(st, c) == {v \in c.scope : ~is_assigned(st, v)}

get_num_unassigned(st, c) == Cardinality(UnassignedIn(st, c))

get_unassigned_vars(st, c) == GridVariableIterator(st, UnassignedIn(st, c))

\* the value check_mapping returns; sat_mappings and unsat_mappings only
\* memoize constraint_function
check_mapping(c, m) == constraint_function(c, m)

\* itertools.product of the current domains of the scope, as mappings
CurDomainProduct(st, c) ==
    {m \in [c.scope -> Vals] : \A u \in c.scope : m[u] \in Range(get_cur_domain(st, u))}

\* a faulty has_support that asks every tuple of the current domains to
\* satisfy the constraint; C30 tells it apart
has_support_AllTuples(st, c, var, val) ==
    IF var \notin c.scope THEN TRUE
    ELSE IF Cardinality(c.scope) = 1
         THEN constraint_function(c, [u \in {var} |-> val])
         ELSE \A m \in CurDomainProduct(st, c) : check_mapping(c, m)

has_support(st, c, var, val) ==
    IF var \notin c.scope THEN TRUE
    ELSE IF Cardinality(c.scope) = 1
         THEN constraint_function(c, [u \in {var} |-> val])
         ELSE \E m \in CurDomainProduct(st, c) : check_mapping(c, m)

(***************************************************************************)
(* CSP (src/csp/cspbase.py).                                               *)
(***************************************************************************)
\* a faulty add_var that registers again a variable the CSP has, with an
\* empty index entry; C20 tells it apart
add_var_Resets(k, v) ==
    [k EXCEPT !.vars = @ \cup {v},
              !.vars_to_cons = [u \in DOMAIN k.vars_to_cons \cup {v} |->
                                   IF u = v THEN {} ELSE k.vars_to_cons[u]]]

\* a faulty add_constraint that indexes the constraint under the registered
\* variables of its scope before it rejects it; C19 tells it apart
add_constraint_Partial(k, c) ==
    LET idx == [u \in DOMAIN k.vars_to_cons |->
                   IF u \in c.scope THEN k.vars_to_cons[u] \cup {c}
                   ELSE k.vars_to_cons[u]]
    IN  IF \E v \in c.scope : v \notin DOMAIN k.vars_to_cons
        THEN [k EXCEPT !.vars_to_cons = idx, !.err = @ \cup {"add_constraint"}]
        ELSE [k EXCEPT !.vars_to_cons = idx,
                       !.cons = IF c \in Range(k.cons) THEN k.cons ELSE Append(k.cons, c)]

\* the CSP as the record k = [vars, cons, vars_to_cons, err]; cons is the
\* set csp.cons in its iteration order
add_var(k, v) ==
    IF v \in DOMAIN k.vars_to_cons
    THEN [k EXCEPT !.err = @ \cup {"add_var"}]
    ELSE [k EXCEPT !.vars = @ \cup {v},
                   !.vars_to_cons = [u \in DOMAIN k.vars_to_cons \cup {v} |->
                                        IF u = v THEN {} ELSE k.vars_to_cons[u]]]

add_constraint(k, c) ==
    IF \E v \in c.scope : v \notin DOMAIN k.vars_to_cons
    THEN [k EXCEPT !.err = @ \cup {"add_constraint"}]
    ELSE [k EXCEPT !.vars_to_cons = [u \in DOMAIN k.vars_to_cons |->
                                        IF u \in c.scope
                                        THEN k.vars_to_cons[u] \cup {c}
                                        ELSE k.vars_to_cons[u]],
                   !.cons = IF c \in Range(k.cons) THEN k.cons ELSE Append(k.cons, c)]

\* CSP.__init__ followed by add_var of vs and add_constraint of cs, in order
RECURSIVE AddVars(_, _)
AddVars(k, vs) == IF vs = <<>> THEN k ELSE AddVars(add_var(k, Head(vs)), Tail(vs))

RECURSIVE AddConstraints(_, _)
AddConstraints(k, cs) ==
    IF cs = <<>> THEN k ELSE AddConstraints(add_constraint(k, Head(cs)), Tail(cs))

NewCSP == [vars |-> {}, cons |-> <<>>, vars_to_cons |-> <<>>, err |-> {}]

get_all_cons == Range(conOrder)

get_cons_with_var(v) == vars_to_cons[v]

(***************************************************************************)
(* Propagators (src/csp/propagators.py).  Each returns the record          *)
(* [status, pruned, st]: the boolean and the list of (Variable, value)     *)
(* pairs the Python function returns, and the state of the variables it    *)
(* leaves behind.                                                          *)
(***************************************************************************)
Pair(v, x) == [var |-> v, val |-> x]

Result(ok, pruned, st) == [status |-> ok, pruned |-> pruned, st |-> st]

\* a faulty prop_BT that checks every constraint of the CSP; C25 tells it
\* apart
prop_BT_AllConstraints(st, new_var) ==
    IF new_var = NoVar THEN Result(TRUE, <<>>, st)
    ELSE IF \E c \in get_all_cons :
                get_num_unassigned(st, c) = 0 /\ ~check(st, c)
         THEN Result(FALSE, <<>>, st)
         ELSE Result(TRUE, <<>>, st)

prop_BT(st, new_var) ==
    IF new_var = NoVar THEN Result(TRUE, <<>>, st)
    ELSE IF \E c \in get_cons_with_var(new_var) :
                get_num_unassigned(st, c) = 0 /\ ~check(st, c)
         THEN Result(FALSE, <<>>, st)
         ELSE Result(TRUE, <<>>, st)

\* the constraints prop_fc and prop_gac start from
StartCons(new_var) ==
    IF new_var # NoVar THEN get_cons_with_var(new_var) ELSE get_all_cons

\* prop_fc, lines 149-155: the constraints with one unassigned variable, by
\* the current domain size of that variable
FcFiltered(st, new_var) ==
    LET cand == {c \in StartCons(new_var) : get_num_unassigned(st, c) = 1}
    IN  SortedBy(IterCons(cand),
                 [c \in cand |-> get_cur_domain_size(st, get_unassigned_vars(st, c)[1])])

\* a faulty FcCheck that keeps a value that fails the check; C26 tells it
\* apart
FcCheck_Keeps(r, c, var, value) ==
    Result(TRUE, r.pruned, unassign(assign(r.st, var, value), var))

\* prop_fc, lines 162-171: one value of the inner loop
FcCheck(r, c, var, value) ==
    The({IF ~check(st1, c)
         THEN Result(TRUE, Append(r.pruned, Pair(var, value)),
                     unassign(prune_value(st1, var, value), var))
         ELSE Result(TRUE, r.pruned, unassign(st1, var)) :
         st1 \in {assign(r.st, var, value)}})

\* prop_fc, line 161: the inner loop over the values of var
RECURSIVE FcValues(_, _, _, _)
FcValues(r, c, var, values) ==
    IF values = <<>> THEN r
    ELSE The({FcValues(r1, c, var, Tail(values)) :
              r1 \in {FcCheck(r, c, var, Head(values))}})

\* a faulty FcLoop that goes on to the remaining constraints after a
\* wipe-out and reports the failure at the end; C27 tells it apart
RECURSIVE FcLoop_Continues(_, _)
FcLoop_Continues(r, cs) ==
    IF cs = <<>>
    THEN IF r.status THEN Result(TRUE, DedupList(r.pruned), r.st) ELSE r
    ELSE LET c   == Head(cs)
             var == GridPop(r.st, UnassignedIn(r.st, c))
             r1  == FcValues(r, c, var, get_cur_domain(r.st, var))
         IN  FcLoop_Continues(Result(r.status /\ get_cur_domain_size(r1.st, var) # 0,
                                     r1.pruned, r1.st),
                              Tail(cs))

\* prop_fc, lines 158-175: the loop over the filtered constraints
RECURSIVE FcLoop(_, _)
FcLoop(r, cs) ==
    IF cs = <<>> THEN Result(TRUE, DedupList(r.pruned), r.st)
    ELSE The({The({IF get_cur_domain_size(r1.st, var) = 0
                   THEN Result(FALSE, r1.pruned, r1.st)
                   ELSE FcLoop(r1, Tail(cs)) :
                   r1 \in {FcValues(r, Head(cs), var, get_cur_domain(r.st, var))}}) :
              var \in {GridPop(r.st, UnassignedIn(r.st, Head(cs)))}})

prop_fc(st, new_var) ==
    The({FcLoop(Result(TRUE, <<>>, st), cs) : cs \in {FcFiltered(st, new_var)}})

\* a faulty enqueue_all that enqueues every constraint touching v, queued
\* or not; C29 tells it apart
EnqueueAll_Again(queue, v) ==
    queue \o IterCons(get_cons_with_var(v))

\* GACQueue.enqueue_all of the constraints touching v that are not queued
EnqueueAll(queue, v) ==
    queue \o SelectSeq(IterCons(get_cons_with_var(v)), LAMBDA c : c \notin Range(queue))

\* a faulty GacCheck that prunes without listing the pair; C5 tells it apart
GacCheck_Unlisted(g, c, variable, value) ==
    IF has_support(g.st, c, variable, value) THEN g
    ELSE LET st1 == prune_value(g.st, variable, value)
         IN  IF get_cur_domain_size(st1, variable) = 0
             THEN [dwo |-> TRUE, queue |-> <<>>, pruned |-> g.pruned, st |-> st1]
             ELSE [dwo |-> FALSE, queue |-> EnqueueAll(g.queue, variable),
                   pruned |-> g.pruned, st |-> st1]

\* a faulty GacCheck that goes on after a wipe-out; C28 tells it apart
GacCheck_GoesOn(g, c, variable, value) ==
    IF has_support(g.st, c, variable, value) THEN g
    ELSE [dwo |-> FALSE, queue |-> EnqueueAll(g.queue, variable),
          pruned |-> Append(g.pruned, Pair(variable, value)),
          st |-> prune_value(g.st, variable, value)]

\* a faulty GacCheck that enqueues the constraints again without pruning;
\* C35 tells it apart
GacCheck_RequeuesOnly(g, c, variable, value) ==
    IF has_support(g.st, c, variable, value) THEN g
    ELSE [g EXCEPT !.queue = EnqueueAll(g.queue, variable)]

\* prop_gac, lines 324-340: one value of the innermost loop; g is the record
\* [dwo, queue, pruned, st]
GacCheck(g, c, variable, value) ==
    IF has_support(g.st, c, variable, value) THEN g
    ELSE The({IF get_cur_domain_size(st1, variable) = 0
              THEN [dwo |-> TRUE, queue |-> <<>>,
                    pruned |-> Append(g.pruned, Pair(variable, value)), st |-> st1]
              ELSE [dwo |-> FALSE, queue |-> EnqueueAll(g.queue, variable),
                    pruned |-> Append(g.pruned, Pair(variable, value)), st |-> st1] :
              st1 \in {prune_value(g.st, variable, value)}})

\* prop_gac, line 321: the loop over the values of one variable
RECURSIVE GacValues(_, _, _, _)
GacValues(g, c, variable, values) ==
    IF g.dwo \/ values = <<>> THEN g
    ELSE The({GacValues(g1, c, variable, Tail(values)) :
              g1 \in {GacCheck(g, c, variable, Head(values))}})

\* prop_gac, lines 319-320: the loop over the scope of one constraint
RECURSIVE GacScope(_, _, _)
GacScope(g, c, variables) ==
    IF g.dwo \/ variables = <<>> THEN g
    ELSE The({GacScope(g1, c, Tail(variables)) :
              g1 \in {GacValues(g, c, Head(variables),
                                get_cur_domain(g.st, Head(variables)))}})

\* prop_gac, line 319: the scope by current domain size
GacSortedScope(st, c) ==
    SortedBy(get_scope(st, c), [v \in c.scope |-> get_cur_domain_size(st, v)])

\* prop_gac, lines 316-341: the loop over the queue
RECURSIVE GacLoop(_)
GacLoop(g) ==
    IF g.dwo THEN Result(FALSE, g.pruned, g.st)
    ELSE IF g.queue = <<>> THEN Result(TRUE, g.pruned, g.st)
    ELSE The({GacLoop(g1) :
              g1 \in {The({GacScope([g EXCEPT !.queue = Tail(g.queue)],
                                    Head(g.queue), scope) :
                           scope \in {GacSortedScope(g.st, Head(g.queue))}})}})

\* prop_gac, line 314: the initial queue
GacQueueInit(st, new_var) ==
    SortedBy(IterCons(StartCons(new_var)),
             [c \in StartCons(new_var) |-> get_num_unassigned(st, c)])

prop_gac(st, new_var) ==
    The({GacLoop(g) : g \in {[dwo |-> FALSE, queue |-> GacQueueInit(st, new_var),
                              pruned |-> <<>>, st |-> st]}})

RunPropagator(p, st, new_var) ==
    CASE p = "BT"  -> prop_BT(st, new_var)
      [] p = "FC"  -> prop_fc(st, new_var)
      [] p = "GAC" -> prop_gac(st, new_var)

(***************************************************************************)
(* BacktrackingSearch (src/search/btsearch.py).                            *)
(***************************************************************************)
\* the state of the variables, as the propagators take it
St == [cd |-> cur_domain, av |-> assignedValue, err |-> errors]

RECURSIVE restoreValues(_, _)
restoreValues(st, prunings) ==
    IF prunings = <<>> THEN st
    ELSE restoreValues(unprune_value(st, Head(prunings).var, Head(prunings).val),
                       Tail(prunings))

RECURSIVE RestoreAllFrom(_, _)
RestoreAllFrom(st, vs) ==
    IF vs = <<>> THEN st
    ELSE LET v   == Head(vs)
             st1 == IF is_assigned(st, v) THEN unassign(st, v) ELSE st
         IN  RestoreAllFrom(restore_cur_domain(st1, v), Tail(vs))

\* a faulty reset that leaves the variables as the first run left them;
\* C21 tells it apart
restore_all_variable_domains_Skips(st) == st

restore_all_variable_domains(st) == RestoreAllFrom(st, IterVars(vars))

\* extract_mr_var, lines 67-75: the variable the scan of the pool keeps
RECURSIVE MrScan(_, _, _, _)
MrScan(st, pool, md, mv) ==
    IF pool = <<>> THEN mv
    ELSE LET v == Head(pool)
         IN  IF md < 0 \/ get_cur_domain_size(st, v) < md
             THEN MrScan(st, Tail(pool), get_cur_domain_size(st, v), v)
             ELSE MrScan(st, Tail(pool), md, mv)

\* a faulty extract_mr_var that takes the first variable of the pool; C33
\* tells it apart
extract_mr_var_First(st, pool) == Head(pool)

extract_mr_var(st, pool) == MrScan(st, pool, -1, NoVar)

\* a faulty removal that leaves the pool as it is; C34 tells it apart
ListRemove_Keeps(pool, v) == pool

\* list.remove: the list without the first occurrence of v
ListRemove(pool, v) ==
    LET i == CHOOSE k \in 1..Len(pool) : pool[k] = v /\ \A j \in 1..(k-1) : pool[j] # v
    IN  SubSeq(pool, 1, i - 1) \o SubSeq(pool, i + 1, Len(pool))

restoreUnasgnVar(pool, v) == Append(pool, v)

\* an active call of bt_recurse: the variable it branches on, the values
\* of its for loop not yet finished (the current one first), the prunings
\* of the current value, and the state the call was entered in
Frame(v, values, st, pool) ==
    [var |-> v, vals |-> values, prunings |-> <<>>,
     entry |-> [cd |-> st.cd, av |-> st.av, pool |-> Range(pool)]]

Top == stack[Len(stack)]

Depth == Len(stack)

\* bt_search, lines 119-127
BtSearchReset ==
    /\ pc = "start"
    /\ \E st \in {restore_all_variable_domains(St)} :
           /\ cur_domain' = st.cd
           /\ assignedValue' = st.av
           /\ errors' = st.err
           /\ unasgn_vars' = SelectSeq(IterVars(vars), LAMBDA v : ~is_assigned(st, v))
    /\ num_decisions' = 0
    /\ num_prunings' = 0
    /\ pc' = "root"
    /\ UNCHANGED <<vars, vars_to_cons, op, gac, cur_domain_flag, cur_domain_cache,
                   sat_mappings, unsat_mappings,
                   domain, domOrder, rank, varOrder,
                   conOrder, propagator,
                   stack, ret, status, rootPrunings, call, returned>>

\* a faulty root step that recurses whatever the root call reports; C12
\* tells it apart
BtSearchRoot_Recurses ==
    /\ pc = "root"
    /\ \E r \in {RunPropagator(propagator, St, NoVar)} :
           /\ cur_domain' = r.st.cd
           /\ assignedValue' = r.st.av
           /\ errors' = r.st.err
           /\ status' = r.status
           /\ rootPrunings' = r.pruned
           /\ num_prunings' = num_prunings + Len(r.pruned)
           /\ call' = [new_var |-> NoVar, pre |-> St, post |-> r.st,
                       status |-> r.status, pruned |-> r.pruned, n |-> call.n + 1]
           /\ pc' = "enter"
    /\ UNCHANGED <<vars, vars_to_cons, op, gac, cur_domain_flag, cur_domain_cache,
                   sat_mappings, unsat_mappings,
                   domain, domOrder, rank, varOrder,
                   conOrder, propagator,
                   unasgn_vars, stack, ret, num_decisions, returned>>

\* bt_search, lines 129-139: the root call of the propagator
BtSearchRoot ==
    /\ pc = "root"
    /\ \E r \in {RunPropagator(propagator, St, NoVar)} :
           /\ cur_domain' = r.st.cd
           /\ assignedValue' = r.st.av
           /\ errors' = r.st.err
           /\ status' = r.status
           /\ rootPrunings' = r.pruned
           /\ num_prunings' = num_prunings + Len(r.pruned)
           /\ call' = [new_var |-> NoVar, pre |-> St, post |-> r.st,
                       status |-> r.status, pruned |-> r.pruned, n |-> call.n + 1]
           /\ pc' = IF r.status THEN "enter" ELSE "finish"
    /\ UNCHANGED <<vars, vars_to_cons, op, gac, cur_domain_flag, cur_domain_cache,
                   sat_mappings, unsat_mappings,
                   domain, domOrder, rank, varOrder,
                   conOrder, propagator,
                   unasgn_vars, stack, ret, num_decisions, returned>>

\* bt_recurse, lines 163-167: entry of a call
BtRecurseEnter ==
    /\ pc = "enter"
    /\ IF unasgn_vars = <<>>
       THEN /\ stack' = Append(stack, Frame(NoVar, <<>>, St, unasgn_vars))
            /\ ret' = TRUE
            /\ pc' = "return"
            /\ UNCHANGED unasgn_vars
       ELSE \E var \in {extract_mr_var(St, unasgn_vars)} :
                /\ stack' = Append(stack, Frame(var, get_cur_domain(St, var), St, unasgn_vars))
                /\ unasgn_vars' = ListRemove(unasgn_vars, var)
                /\ pc' = "loop"
                /\ UNCHANGED ret
    /\ UNCHANGED <<vars, vars_to_cons, op, gac, cur_domain_flag, cur_domain_cache,
                   sat_mappings, unsat_mappings,
                   domain, domOrder, rank, varOrder,
                   conOrder, propagator,
                   cur_domain, assignedValue, errors, status, rootPrunings,
                   num_decisions, num_prunings, call, returned>>

\* bt_recurse, lines 171-175: the next value of the for loop is assigned
BtAssign ==
    /\ pc = "loop"
    /\ Top.vals # <<>>
    /\ \E st \in {assign(St, Top.var, Head(Top.vals))} :
           /\ assignedValue' = st.av
           /\ errors' = st.err
    /\ num_decisions' = num_decisions + 1
    /\ pc' = "assigned"
    /\ UNCHANGED <<vars, vars_to_cons, op, gac, cur_domain_flag, cur_domain_cache,
                   sat_mappings, unsat_mappings,
                   domain, domOrder, rank, varOrder,
                   conOrder, propagator,
                   cur_domain, unasgn_vars, stack, ret, status, rootPrunings,
                   num_prunings, call, returned>>

\* a faulty step that calls the propagator without the variable; C31 tells
\* it apart
BtPropagate_NoArgument ==
    /\ pc = "assigned"
    /\ \E r \in {RunPropagator(propagator, St, NoVar)} :
           /\ cur_domain' = r.st.cd
           /\ assignedValue' = r.st.av
           /\ errors' = r.st.err
           /\ stack' = [stack EXCEPT ![Len(stack)].prunings = r.pruned]
           /\ num_prunings' = num_prunings + Len(r.pruned)
           /\ call' = [new_var |-> NoVar, pre |-> St, post |-> r.st,
                       status |-> r.status, pruned |-> r.pruned, n |-> call.n + 1]
           /\ pc' = IF r.status THEN "enter" ELSE "restore"
    /\ UNCHANGED <<vars, vars_to_cons, op, gac, cur_domain_flag, cur_domain_cache,
                   sat_mappings, unsat_mappings,
                   domain, domOrder, rank, varOrder,
                   conOrder, propagator,
                   unasgn_vars, ret, status, rootPrunings, num_decisions, returned>>

\* bt_recurse, lines 177-184: the propagator is called with the variable
BtPropagate ==
    /\ pc = "assigned"
    /\ \E r \in {RunPropagator(propagator, St, Top.var)} :
           /\ cur_domain' = r.st.cd
           /\ assignedValue' = r.st.av
           /\ errors' = r.st.err
           /\ stack' = [stack EXCEPT ![Len(stack)].prunings = r.pruned]
           /\ num_prunings' = num_prunings + Len(r.pruned)
           /\ call' = [new_var |-> Top.var, pre |-> St, post |-> r.st,
                       status |-> r.status, pruned |-> r.pruned, n |-> call.n + 1]
           /\ pc' = IF r.status THEN "enter" ELSE "restore"
    /\ UNCHANGED <<vars, vars_to_cons, op, gac, cur_domain_flag, cur_domain_cache,
                   sat_mappings, unsat_mappings,
                   domain, domOrder, rank, varOrder,
                   conOrder, propagator,
                   unasgn_vars, ret, status, rootPrunings, num_decisions, returned>>

\* bt_recurse, lines 188-189: the value is abandoned
BtRestore ==
    /\ pc = "restore"
    /\ \E st \in {unassign(restoreValues(St, Top.prunings), Top.var)} :
           /\ cur_domain' = st.cd
           /\ assignedValue' = st.av
           /\ errors' = st.err
    /\ stack' = [stack EXCEPT ![Len(stack)].vals = Tail(@),
                              ![Len(stack)].prunings = <<>>]
    /\ pc' = "loop"
    /\ UNCHANGED <<vars, vars_to_cons, op, gac, cur_domain_flag, cur_domain_cache,
                   sat_mappings, unsat_mappings,
                   domain, domOrder, rank, varOrder,
                   conOrder, propagator,
                   unasgn_vars, ret, status, rootPrunings, num_decisions,
                   num_prunings, call, returned>>

\* bt_recurse, lines 191-192: every value failed
BtExhausted ==
    /\ pc = "loop"
    /\ Top.vals = <<>>
    /\ unasgn_vars' = restoreUnasgnVar(unasgn_vars, Top.var)
    /\ ret' = FALSE
    /\ pc' = "return"
    /\ UNCHANGED <<vars, vars_to_cons, op, gac, cur_domain_flag, cur_domain_cache,
                   sat_mappings, unsat_mappings,
                   domain, domOrder, rank, varOrder,
                   conOrder, propagator,
                   cur_domain, assignedValue, errors, stack, status, rootPrunings,
                   num_decisions, num_prunings, call, returned>>

\* a faulty return that goes on with the next value after a success; C32
\* tells it apart
BtReturnTrue_GoesOn ==
    /\ pc = "return"
    /\ Len(stack) > 1
    /\ ret = TRUE
    /\ returned' = Top
    /\ stack' = SubSeq(stack, 1, Len(stack) - 1)
    /\ pc' = "restore"
    /\ UNCHANGED <<vars, vars_to_cons, op, gac, cur_domain_flag, cur_domain_cache,
                   sat_mappings, unsat_mappings,
                   domain, domOrder, rank, varOrder,
                   conOrder, propagator,
                   cur_domain, assignedValue, errors, unasgn_vars, ret, status,
                   rootPrunings, num_decisions, num_prunings, call>>

\* the return of a call of bt_recurse to bt_recurse, line 184 with True
BtReturnTrue ==
    /\ pc = "return"
    /\ Len(stack) > 1
    /\ ret = TRUE
    /\ returned' = Top
    /\ stack' = SubSeq(stack, 1, Len(stack) - 1)
    /\ pc' = "return"
    /\ UNCHANGED <<vars, vars_to_cons, op, gac, cur_domain_flag, cur_domain_cache,
                   sat_mappings, unsat_mappings,
                   domain, domOrder, rank, varOrder,
                   conOrder, propagator,
                   cur_domain, assignedValue, errors, unasgn_vars, ret, status,
                   rootPrunings, num_decisions, num_prunings, call>>

\* the return of a call of bt_recurse to bt_recurse, line 184 with False
BtReturnFalse ==
    /\ pc = "return"
    /\ Len(stack) > 1
    /\ ret = FALSE
    /\ returned' = Top
    /\ stack' = SubSeq(stack, 1, Len(stack) - 1)
    /\ pc' = "restore"
    /\ UNCHANGED <<vars, vars_to_cons, op, gac, cur_domain_flag, cur_domain_cache,
                   sat_mappings, unsat_mappings,
                   domain, domOrder, rank, varOrder,
                   conOrder, propagator,
                   cur_domain, assignedValue, errors, unasgn_vars, ret, status,
                   rootPrunings, num_decisions, num_prunings, call>>

\* the return of the outermost call of bt_recurse to bt_search, line 139
BtReturnTop ==
    /\ pc = "return"
    /\ Len(stack) = 1
    /\ returned' = Top
    /\ stack' = <<>>
    /\ status' = ret
    /\ pc' = "finish"
    /\ UNCHANGED <<vars, vars_to_cons, op, gac, cur_domain_flag, cur_domain_cache,
                   sat_mappings, unsat_mappings,
                   domain, domOrder, rank, varOrder,
                   conOrder, propagator,
                   cur_domain, assignedValue, errors, unasgn_vars, ret,
                   rootPrunings, num_decisions, num_prunings, call>>

\* bt_search, lines 142-151
BtSearchFinish ==
    /\ pc = "finish"
    /\ \E st \in {restoreValues(St, rootPrunings)} :
           /\ cur_domain' = st.cd
           /\ assignedValue' = st.av
           /\ errors' = st.err
    /\ pc' = "done"
    /\ UNCHANGED <<vars, vars_to_cons, op, gac, cur_domain_flag, cur_domain_cache,
                   sat_mappings, unsat_mappings,
                   domain, domOrder, rank, varOrder,
                   conOrder, propagator,
                   unasgn_vars, stack, ret, status, rootPrunings, num_decisions,
                   num_prunings, call, returned>>

Next ==
    \/ BtSearchReset
    \/ BtSearchRoot
    \/ BtRecurseEnter
    \/ BtAssign
    \/ BtPropagate
    \/ BtRestore
    \/ BtExhausted
    \/ BtReturnTrue
    \/ BtReturnFalse
    \/ BtReturnTop
    \/ BtSearchFinish

(***************************************************************************)
(* Calls of the Variable methods from outside the search: any method, on   *)
(* any variable, with any value (assign also with a value outside the      *)
(* domain), in any order.                                                  *)
(***************************************************************************)
\* the variables with no failure reported yet
Clean == [St EXCEPT !.err = {}]

\* the values handed to assign: those of the domains and one outside them
AssignVals == 1..(MaxVal + 1)

\* a faulty setting of the flag that leaves it as it is; C36 tells it apart
FlagAfter_Stale(v, r) == cur_domain_flag

\* cur_domain_flag after the call that took Clean to r: every method that
\* changes the mask or the assignment sets it, a rejected call returns
\* before it does
FlagAfter(v, r) ==
    [cur_domain_flag EXCEPT ![v] = IF r.err # {} THEN @ ELSE TRUE]

\* the call name(v, x) took Clean to r
VarCall(name, v, x, r) ==
    /\ cur_domain' = r.cd
    /\ assignedValue' = r.av
    /\ errors' = errors \cup r.err
    /\ op' = [name |-> name, var |-> v, val |-> x, pre |-> St,
              post |-> [cd |-> r.cd, av |-> r.av, err |-> errors \cup r.err],
              failed |-> r.err # {}]
    /\ cur_domain_flag' = FlagAfter(v, r)
    /\ UNCHANGED <<vars, vars_to_cons, gac, sat_mappings, unsat_mappings,
                   cur_domain_cache,
                   domain, domOrder, rank, varOrder, conOrder,
                   propagator, unasgn_vars, stack, pc, ret, status, rootPrunings,
                   num_decisions, num_prunings, call, returned>>

VarAssign ==
    \E v \in vars, x \in AssignVals : VarCall("assign", v, x, assign(Clean, v, x))

VarUnassign ==
    \E v \in vars : VarCall("unassign", v, None, unassign(Clean, v))

VarPrune ==
    \E v \in vars : \E x \in domain[v] :
        VarCall("prune_value", v, x, prune_value(Clean, v, x))

VarUnprune ==
    \E v \in vars : \E x \in domain[v] :
        VarCall("unprune_value", v, x, unprune_value(Clean, v, x))

VarRestore ==
    \E v \in vars : VarCall("restore_cur_domain", v, None, restore_cur_domain(Clean, v))

NextV ==
    \/ VarAssign
    \/ VarUnassign
    \/ VarPrune
    \/ VarUnprune
    \/ VarRestore

(***************************************************************************)
(* The CSPs the search is run on.                                          *)
(***************************************************************************)
Catalog ==
    << Con("A<B", "lt", {"A", "B"}, "A", "B"),
       Con("A#B", "neq", {"A", "B"}, "A", "B"),
       Con("A=B", "eq", {"A", "B"}, "A", "B"),
       Con("B>=2", "ge2", {"B"}, "B", "B"),
       Con("B#C", "neq", {"B", "C"}, "B", "C"),
       Con("C<A", "lt", {"A", "C"}, "C", "A"),
       Con("alldiff", "alldiff", {"A", "B", "C"}, "A", "A") >>

(***************************************************************************)
(* Calls of add_var and add_constraint on a CSP, with any variable and any *)
(* constraint of the catalog, accepted or rejected, in any order.          *)
(***************************************************************************)
\* the CSP, and the CSP with no failure reported yet
K == [vars |-> vars, cons |-> conOrder, vars_to_cons |-> vars_to_cons, err |-> errors]

KClean == [K EXCEPT !.err = {}]

\* the call name(v) or name(c) took KClean to k
CspCall(name, v, c, k) ==
    /\ vars' = k.vars
    /\ conOrder' = k.cons
    /\ vars_to_cons' = k.vars_to_cons
    /\ errors' = errors \cup k.err
    /\ op' = [name |-> name, var |-> v, val |-> c, pre |-> K,
              post |-> [k EXCEPT !.err = errors \cup k.err], failed |-> k.err # {}]
    /\ UNCHANGED <<gac, cur_domain_flag, cur_domain_cache,
                   sat_mappings, unsat_mappings,
                   domain, domOrder, rank, varOrder, propagator, cur_domain,
                   assignedValue, unasgn_vars, stack, pc, ret, status, rootPrunings,
                   num_decisions, num_prunings, call, returned>>

CspAddVar ==
    \E v \in VarNames : CspCall("add_var", v, None, add_var(KClean, v))

\* at most MaxCons constraints are stored
CspAddConstraint ==
    \E c \in Range(Catalog) :
        /\ Len(conOrder) < MaxCons \/ c \in Range(conOrder) \/ ~(c.scope \subseteq vars)
        /\ CspCall("add_constraint", NoVar, c, add_constraint(KClean, c))

NextK ==
    \/ CspAddVar
    \/ CspAddConstraint

\* the CSPs of at most n constraints of the catalog over vs, each in the
\* order of the catalog and in the reverse order
ConLists(vs, n) ==
    LET usable == {c \in Range(Catalog) : c.scope \subseteq vs}
        inOrder(S) == SelectSeq(Catalog, LAMBDA c : c \in S)
    IN  UNION {{inOrder(S), Reverse(inOrder(S))} :
               S \in {T \in SUBSET usable : Cardinality(T) <= n}}

\* the key orders of a domain 1..d: increasing and decreasing
DomOrders(vs, d) ==
    {[v \in vs |-> [i \in 1..d |-> i]], [v \in vs |-> [i \in 1..d |-> d + 1 - i]]}

\* the sort-key summands of the variables; only prop_gac iterates a
\* GridVariableIterator of more than one variable
RankChoices(vs, p) ==
    IF p = "GAC"
    THEN {[v \in vs |-> 1], [v \in vs |-> 2],
          [v \in vs |-> CASE v = "A" -> 0 [] v = "B" -> 1 [] OTHER -> 2]}
    ELSE {[v \in vs |-> 1]}

\* no method has been called from outside the search
NoOp == [name |-> "none"]

\* no call of prop_gac is taken step by step
NoGac == [pc |-> "none"]

\* the Variable objects vs and the search object, as constructed
InitObjects(vs, d, p, vo, do, rk) ==
    /\ domain = [v \in vs |-> 1..d]
    /\ domOrder = do
    /\ rank = rk
    /\ varOrder = vo
    /\ propagator = p
    /\ cur_domain = [v \in vs |-> [x \in 1..d |-> TRUE]]
    /\ assignedValue = [v \in vs |-> None]
    /\ errors = {}
    /\ unasgn_vars = <<>>
    /\ stack = <<>>
    /\ pc = "start"
    /\ ret = FALSE
    /\ status = FALSE
    /\ rootPrunings = <<>>
    /\ num_decisions = 0
    /\ num_prunings = 0
    /\ call = [new_var |-> NoVar,
               pre |-> [cd |-> [v \in vs |-> [x \in 1..d |-> TRUE]],
                        av |-> [v \in vs |-> None], err |-> {}],
               post |-> [cd |-> [v \in vs |-> [x \in 1..d |-> TRUE]],
                         av |-> [v \in vs |-> None], err |-> {}],
               status |-> TRUE, pruned |-> <<>>, n |-> 0]
    /\ returned = Frame(NoVar, <<>>,
                        [cd |-> [v \in vs |-> [x \in 1..d |-> TRUE]],
                         av |-> [v \in vs |-> None]], <<>>)
    /\ op = NoOp
    /\ gac = NoGac
    /\ cur_domain_flag = [v \in vs |-> FALSE]
    /\ cur_domain_cache = do
    /\ sat_mappings = {}
    /\ unsat_mappings = {}

\* the state after construction of a CSP of the variables vs and the
\* constraints cl
InitCSP(vs, d, cl, p, vo, do, rk) ==
    /\ InitObjects(vs, d, p, vo, do, rk)
    /\ \E k \in {AddConstraints(AddVars(NewCSP, vo), cl)} :
           /\ vars = k.vars
           /\ conOrder = k.cons
           /\ vars_to_cons = k.vars_to_cons

Propagators == {"BT", "FC", "GAC"}

Init ==
    \E d \in 1..MaxVal, p \in Propagators :
    \E cl \in ConLists(VarNames, MaxCons), vo \in Perms(VarNames) :
    \E do \in DomOrders(VarNames, d), rk \in RankChoices(VarNames, p) :
        InitCSP(VarNames, d, cl, p, vo, do, rk)

Spec == Init /\ [][Next]_vars_all

(***************************************************************************)
(* Notions the claims are stated with.                                     *)
(***************************************************************************)
\* the complete assignments that satisfy every constraint of the CSP
Solutions ==
    {m \in [vars -> Vals] :
        /\ \A v \in vars : m[v] \in domain[v]
        /\ \A c \in Range(conOrder) : constraint_function(c, [v \in c.scope |-> m[v]])}

AllAssigned == \A v \in vars : assignedValue[v] # None

AllUnassigned == \A v \in vars : assignedValue[v] = None

AllRestored == \A v \in vars : \A x \in domain[v] : cur_domain[v][x]

\* the (Variable, value) pairs whose mask entry is set in cd
Present(cd) ==
    {pr \in [var : vars, val : Vals] : pr.val \in domain[pr.var] /\ cd[pr.var][pr.val]}

\* v = x has a supporting assignment in c: values of the other variables
\* of the scope, from their current domains, that satisfy c with v = x
Supported(st, c, v, x) ==
    \E m \in [c.scope -> Vals] :
        /\ m[v] = x
        /\ \A u \in c.scope \ {v} : m[u] \in Range(get_cur_domain(st, u))
        /\ constraint_function(c, m)

\* a propagator call has been made; call holds it
Called == call.n > 0

(***************************************************************************)
(* Scenario A: variables A and B of domain {1,2} and the constraint A < B, *)
(* under every propagator and every iteration order.                       *)
(***************************************************************************)
InitA ==
    \E p \in Propagators, vo \in Perms({"A", "B"}) :
    \E do \in [{"A", "B"} -> Perms(1..2)], rk \in [{"A", "B"} -> 0..2] :
        InitCSP({"A", "B"}, 2, <<Catalog[1]>>, p, vo, do, rk)

SpecA == InitA /\ [][Next]_vars_all

(***************************************************************************)
(* Scenario B: variables A, B and C of domain {1,2,3} under one            *)
(* all-different constraint, under every propagator and iteration order.   *)
(***************************************************************************)
InitB ==
    \E p \in Propagators, vo \in Perms(VarNames) :
    \E do \in DomOrders(VarNames, 3), rk \in RankChoices(VarNames, p) :
        InitCSP(VarNames, 3, <<Catalog[7]>>, p, vo, do, rk)

SpecB == InitB /\ [][Next]_vars_all

(***************************************************************************)
(* Scenario C: variables A and B of domain {1} and the constraint A # B,   *)
(* under every propagator and iteration order, beside the CSPs of Init.    *)
(***************************************************************************)
InitC ==
    \E p \in Propagators, vo \in Perms({"A", "B"}) :
    \E rk \in [{"A", "B"} -> 0..2] :
        InitCSP({"A", "B"}, 1, <<Catalog[2]>>, p, vo, [v \in {"A", "B"} |-> <<1>>], rk)

SpecC == (Init \/ InitC) /\ [][Next]_vars_all

\* the root propagator call has been made and reported failure
RootFailed == call.n = 1 /\ call.new_var = NoVar /\ ~call.status

\* the CSP is that of Scenario C
IsScenarioC == vars = {"A", "B"} /\ (\A v \in vars : domain[v] = {1})

(***************************************************************************)
(* Variables A and B of domain 1..d on their own: the Variable methods     *)
(* called in any order.                                                    *)
(***************************************************************************)
InitV ==
    \E d \in 1..MaxVal : \E do \in DomOrders({"A", "B"}, d) :
        InitCSP({"A", "B"}, d, <<>>, "BT", <<"A", "B">>, do, [v \in {"A", "B"} |-> 1])

SpecV == InitV /\ [][NextV]_vars_all

\* the last call from outside was name(...)
OpIs(name) == op.name = name

(***************************************************************************)
(* An empty CSP beside the Variable objects A, B and C: add_var and        *)
(* add_constraint called in any order.                                     *)
(***************************************************************************)
InitK ==
    /\ InitObjects(VarNames, 1, "BT", <<"A", "B", "C">>,
                   [v \in VarNames |-> <<1>>], [v \in VarNames |-> 1])
    /\ vars = NewCSP.vars
    /\ conOrder = NewCSP.cons
    /\ vars_to_cons = NewCSP.vars_to_cons

SpecK == InitK /\ [][NextK]_vars_all

(***************************************************************************)
(* The claims.                                                             *)
(***************************************************************************)

(* C1: for each propagator, bt_search ends with success if and only if     *)
(* some complete assignment satisfies every constraint of the CSP.         *)
C1_SuccessIffSolution == pc = "done" => (status <=> Solutions # {})

(* C2: whenever bt_search ends with success, every variable is assigned a  *)
(* value of its domain and check() of every constraint is true.            *)
C2_SuccessIsSolution ==
    (pc = "done" /\ status) =>
        /\ \A v \in vars : assignedValue[v] \in domain[v]
        /\ \A c \in Range(conOrder) : check(St, c)

(* C3: whenever bt_search ends with failure, every variable is unassigned  *)
(* and no value of any variable remains pruned.                            *)
C3_FailureRestoresAll == (pc = "done" /\ ~status) => (AllUnassigned /\ AllRestored)

\* a failed search that assigned and pruned
C3_Witness == pc = "done" /\ ~status /\ num_decisions > 0 /\ num_prunings > 1

(* C4: whenever a call of bt_recurse returns False, every mask, every      *)
(* assignment and the set of pooled variables are as they were when the    *)
(* call was entered.                                                       *)
C4_FalseReturnRestoresEntry ==
    (pc = "return" /\ ~ret) =>
        Top.entry = [cd |-> cur_domain, av |-> assignedValue, pool |-> Range(unasgn_vars)]

(* C5: the list a propagator call returns, on success and on wipe-out, is  *)
(* without duplicates and is exactly the set of (Variable, value) pairs    *)
(* that were present before the call and are pruned after it; the call     *)
(* sets no mask entry that was pruned before.                              *)
C5_PrunedListExact ==
    Called =>
        /\ NoDup(call.pruned)
        /\ Range(call.pruned) = Present(call.pre.cd) \ Present(call.post.cd)
        /\ Present(call.post.cd) \subseteq Present(call.pre.cd)

\* a prop_gac call that returns a wipe-out and lists several pairs
C5_Witness == Called /\ Len(call.pruned) > 1 /\ ~call.status /\ propagator = "GAC"

(* C6: after a call of prop_gac that returns success, every value in the   *)
(* current domain of every variable has a supporting assignment in every   *)
(* constraint touching that variable.                                      *)
C6_ArcConsistentAfterGac ==
    (Called /\ propagator = "GAC" /\ call.status) =>
        \A v \in vars : \A c \in get_cons_with_var(v) :
            \A x \in Range(get_cur_domain(call.post, v)) : Supported(call.post, c, v, x)

(* C7: has_support(var, val) is true if and only if some assignment to     *)
(* the other scope variables, from their current domains, satisfies the    *)
(* constraint together with var = val.                                     *)
C7_HasSupportExact ==
    (propagator = "GAC" /\ pc \in {"root", "assigned"}) =>
        \A c \in Range(conOrder) : \A v \in c.scope : \A x \in domain[v] :
            has_support(St, c, v, x) <=> Supported(St, c, v, x)

(* C8: from the state of any propagator call with a newly assigned         *)
(* variable, if prop_BT reports failure then so does prop_fc, and if       *)
(* prop_fc reports failure then so does prop_gac.                          *)
C8_MonotoneDeadEnd ==
    (Called /\ call.new_var # NoVar) =>
        /\ ~prop_BT(call.pre, call.new_var).status => ~prop_fc(call.pre, call.new_var).status
        /\ ~prop_fc(call.pre, call.new_var).status => ~prop_gac(call.pre, call.new_var).status

(* C9: from the state of any propagator call, the pairs prop_gac prunes    *)
(* include the pairs prop_fc prunes, which include the pairs prop_BT       *)
(* prunes (none).                                                          *)
C9_MonotonePruning ==
    Called =>
        /\ Range(prop_BT(call.pre, call.new_var).pruned) = {}
        /\ Range(prop_fc(call.pre, call.new_var).pruned)
              \subseteq Range(prop_gac(call.pre, call.new_var).pruned)

(* C10: in Scenario A bt_search ends with success, A assigned 1 and B      *)
(* assigned 2, under each propagator and every iteration order.            *)
C10_ScenarioA ==
    pc = "done" => (status /\ assignedValue["A"] = 1 /\ assignedValue["B"] = 2)


(* C11: in Scenario B the initial call prop_gac(csp) returns success and   *)
(* an empty list, and after A is assigned 1 the call prop_gac(csp, A)      *)
(* returns success having pruned exactly (B, 1) and (C, 1).                *)
C11_ScenarioB ==
    pc = "root" =>
        LET r0 == prop_gac(St, NoVar)
            r1 == prop_gac(assign(r0.st, "A", 1), "A")
        IN  /\ r0.status /\ r0.pruned = <<>>
            /\ r1.status /\ Range(r1.pruned) = {Pair("B", 1), Pair("C", 1)}

(* C12: once the root propagator call has reported failure, bt_search     *)
(* goes straight to its end and ends with failure: bt_recurse is never     *)
(* called, no decision is made and no variable is assigned; and in         *)
(* Scenario C the root call of prop_gac reports failure.                   *)
C12_RootFailure ==
    /\ RootFailed =>
           /\ pc \in {"finish", "done"}
           /\ ~status
           /\ stack = <<>>
           /\ num_decisions = 0
           /\ AllUnassigned
    /\ (IsScenarioC /\ propagator = "GAC" /\ pc \notin {"start", "root"}) => RootFailed

\* Scenario C has ended after the root call of prop_gac failed
C12_Witness == IsScenarioC /\ propagator = "GAC" /\ RootFailed /\ pc = "done"

(* C13: prune_value and unprune_value leave the assigned value of every   *)
(* variable unchanged, also when the value is the one the variable is      *)
(* assigned, and assign and unassign leave every mask entry unchanged.     *)
C13_PruneAssignIndependent ==
    /\ (OpIs("prune_value") \/ OpIs("unprune_value")) => op.post.av = op.pre.av
    /\ (OpIs("assign") \/ OpIs("unassign")) => op.post.cd = op.pre.cd

(* C14: after a successful assign(x), get_cur_domain() is exactly [x] and  *)
(* in_cur_domain(y) is true only for y = x, whatever the mask; after the   *)
(* unassign() that follows, get_cur_domain() is again the list of          *)
(* mask-present values it was before the assignment.                       *)
C14_AssignmentView ==
    (OpIs("assign") /\ ~op.failed) =>
        /\ get_cur_domain(op.post, op.var) = <<op.val>>
        /\ get_cur_domain_size(op.post, op.var) = 1
        /\ \A y \in AssignVals : in_cur_domain(op.post, op.var, y) <=> y = op.val
        /\ get_cur_domain(unassign(op.post, op.var), op.var) = get_cur_domain(op.pre, op.var)
        /\ get_cur_domain(op.pre, op.var) = MaskList(op.pre, op.var)

\* a successful assign on a variable with another value pruned
C14_Witness ==
    /\ OpIs("assign") /\ ~op.failed
    /\ \E y \in domain[op.var] : y # op.val /\ ~op.pre.cd[op.var][y]

(* C15: for any variable, in any state, and any value x of its domain,     *)
(* prune_value(x) followed by unprune_value(x) leaves the mask entry of x  *)
(* present, and every other mask entry and every assignment as they were.  *)
C15_PruneUnpruneRoundTrip ==
    \A v \in vars : \A x \in domain[v] :
        LET st2 == unprune_value(prune_value(St, v, x), v, x)
        IN  /\ x \in Range(MaskList(st2, v))
            /\ \A u \in vars : \A y \in domain[u] :
                   (u # v \/ y # x) => st2.cd[u][y] = cur_domain[u][y]
            /\ st2.av = assignedValue

(* C16: after restore_cur_domain(), whatever values were pruned before,    *)
(* every mask entry of the variable is present and, the variable being     *)
(* unassigned, get_cur_domain() lists exactly the values of domain.        *)
C16_RestoreLaw ==
    \A v \in vars :
        LET st1 == restore_cur_domain(St, v)
        IN  /\ \A x \in domain[v] : st1.cd[v][x]
            /\ ~is_assigned(st1, v) =>
                   /\ Range(get_cur_domain(st1, v)) = domain[v]
                   /\ Len(get_cur_domain(st1, v)) = Cardinality(domain[v])
                   /\ get_cur_domain_size(st1, v) = Cardinality(domain[v])

\* restore_cur_domain was called on an unassigned variable with a value pruned
C16_Witness ==
    /\ OpIs("restore_cur_domain") /\ op.pre.av[op.var] = None
    /\ \E x \in domain[op.var] : ~op.pre.cd[op.var][x]
    /\ \A x \in domain[op.var] : cur_domain[op.var][x]

(* C17: assign(x) fails when the variable is already assigned or x is not  *)
(* in its current domain (pruned, or no member of domain); a failed assign *)
(* changes no assigned value and no mask entry; a successful assign sets   *)
(* the assigned value of the variable to x and changes nothing else.       *)
C17_AssignChecked ==
    OpIs("assign") =>
        LET v == op.var
            x == op.val
            illegal == \/ op.pre.av[v] # None
                       \/ x \notin domain[v]
                       \/ ~op.pre.cd[v][x]
        IN  /\ op.failed <=> illegal
            /\ op.post.cd = op.pre.cd
            /\ op.failed => op.post.av = op.pre.av
            /\ ~op.failed => op.post.av = [op.pre.av EXCEPT ![v] = x]

\* an assign that failed on a pruned value, after one that failed on a value
\* outside the domain
C17_Witness ==
    /\ OpIs("assign") /\ op.failed /\ op.pre.av[op.var] = None
    /\ op.val \in domain[op.var]
    /\ "KeyError" \in errors

(* C18: unassign() on a variable that is not assigned fails and changes    *)
(* nothing; unassign() on an assigned variable clears its assigned value   *)
(* and changes no mask entry and no other variable.                        *)
C18_UnassignChecked ==
    OpIs("unassign") =>
        /\ op.failed <=> op.pre.av[op.var] = None
        /\ op.post.cd = op.pre.cd
        /\ op.failed => op.post.av = op.pre.av
        /\ ~op.failed => op.post.av = [op.pre.av EXCEPT ![op.var] = None]

\* an unassign that failed
C18_Witness == OpIs("unassign") /\ op.failed /\ \E x \in domain[op.var] : ~cur_domain[op.var][x]

(* C19: add_constraint(c) with a scope variable that is not registered is  *)
(* rejected and leaves the variable set, the constraint set and the index  *)
(* unchanged, also when only some of the scope variables are unregistered. *)
C19_UnknownVariableRejected ==
    (OpIs("add_constraint") /\ ~(op.val.scope \subseteq op.pre.vars)) =>
        /\ op.failed
        /\ op.post.vars = op.pre.vars
        /\ op.post.cons = op.pre.cons
        /\ op.post.vars_to_cons = op.pre.vars_to_cons

\* a rejected constraint with a registered and an unregistered scope variable
C19_Witness ==
    /\ OpIs("add_constraint") /\ op.failed
    /\ op.val.scope \cap op.pre.vars # {}
    /\ op.val.scope \ op.pre.vars # {}
    /\ op.pre.cons # <<>>

(* C20: after any sequence of add_var and add_constraint calls, accepted   *)
(* or rejected, get_cons_with_var(v) of every registered variable v is the *)
(* set of stored constraints whose scope contains v, and every scope       *)
(* variable of a stored constraint is registered.                          *)
C20_IndexInverseOfScope ==
    /\ DOMAIN vars_to_cons = vars
    /\ \A v \in vars : get_cons_with_var(v) = {c \in get_all_cons : v \in c.scope}
    /\ \A c \in get_all_cons : c.scope \subseteq vars

\* two constraints stored on a common variable, after a rejected add_var and a
\* rejected add_constraint
C20_Witness ==
    /\ \E v \in vars : Cardinality(get_cons_with_var(v)) = 2
    /\ {"add_var", "add_constraint"} \subseteq errors
    /\ vars # VarNames


(***************************************************************************)
(* bt_search called a second time on the same BacktrackingSearch object,   *)
(* with the same propagator, once the first call has finished.             *)
(***************************************************************************)
\* the second call of bt_search; op keeps what the first call left behind
BtSearchAgain ==
    /\ pc = "done"
    /\ op = NoOp
    /\ op' = [name |-> "bt_search", status |-> status, av |-> assignedValue,
              cd |-> cur_domain]
    /\ pc' = "start"
    /\ UNCHANGED <<vars, vars_to_cons, gac, cur_domain_flag, cur_domain_cache,
                   sat_mappings, unsat_mappings,
                   domain, domOrder, rank, varOrder,
                   conOrder, propagator,
                   cur_domain, assignedValue, errors, unasgn_vars, stack, ret,
                   status, rootPrunings, num_decisions, num_prunings, call,
                   returned>>

NextR ==
    \/ Next
    \/ BtSearchAgain

SpecR == Init /\ [][NextR]_vars_all

(* C21: a second bt_search on the same CSP with the same propagator ends   *)
(* with the result of the first and, on success, with the same assignment; *)
(* after its root reset every variable is unassigned and every current     *)
(* domain is full, whatever the first run left behind.                     *)
C21_IdempotentRerun ==
    OpIs("bt_search") =>
        /\ pc = "root" => AllUnassigned /\ AllRestored
        /\ pc = "done" =>
              /\ status = op.status
              /\ status => assignedValue = op.av

\* the second run has finished with success, and the first had left
\* assignments and pruned values behind
C21_Witness ==
    /\ OpIs("bt_search")
    /\ pc = "done"
    /\ status
    /\ \E v \in vars : op.av[v] # None
    /\ \E v \in vars : \E x \in domain[v] : ~op.cd[v][x]

(* C22: a propagator call returns with the assignment of every variable    *)
(* exactly as it was when the call began: under prop_fc also when the call *)
(* reports a wipe-out, and no propagator unassigns a variable the driver   *)
(* has assigned.                                                           *)
C22_AssignmentsPreserved ==
    Called => call.post.av = call.pre.av

(* C23: at every entry to bt_recurse the pool unasgn_vars holds, without   *)
(* duplicates, exactly the variables that are unassigned, and every        *)
(* variable outside the pool is assigned; at every depth, under each       *)
(* propagator.                                                             *)
C23_PoolIsUnassigned ==
    pc = "enter" =>
        /\ NoDup(unasgn_vars)
        /\ Range(unasgn_vars) = {v \in vars : assignedValue[v] = None}

(* C24: during bt_search, under any propagator, no call breaks the         *)
(* protocol of Variable: no assign on an assigned variable or with a value *)
(* outside the current domain, no unassign on an unassigned variable.      *)
C24_NoProtocolViolation ==
    errors = {}

\* c touches v, all of its scope is assigned, and the assigned values do
\* not satisfy it
ViolatedAt(c, v) ==
    /\ v \in c.scope
    /\ \A u \in c.scope : assignedValue[u] # None
    /\ ~constraint_function(c, [u \in c.scope |-> assignedValue[u]])

(* C25: prop_BT never prunes and changes no state; without a new variable  *)
(* it reports success with an empty list; with one it reports failure with *)
(* an empty list exactly when some constraint touching that variable has   *)
(* all of its scope assigned and is not satisfied, and success with an     *)
(* empty list otherwise.                                                   *)
C25_PropBTChecksOnly ==
    \A new_var \in vars \cup {NoVar} :
        /\ prop_BT(St, new_var).st = St
        /\ prop_BT(St, new_var).pruned = <<>>
        /\ new_var = NoVar => prop_BT(St, new_var).status
        /\ new_var # NoVar =>
              (~prop_BT(St, new_var).status
                  <=> \E c \in Range(conOrder) : ViolatedAt(c, new_var))

\* the search has called prop_BT on a new variable and it reported failure
C25_Witness ==
    /\ propagator = "BT"
    /\ Called
    /\ call.new_var # NoVar
    /\ call.pre = St
    /\ ~call.status
    /\ ~prop_BT(St, call.new_var).status

\* the constraints a call of prop_fc on new_var is to examine in the state
\* st: those it starts from that have exactly one unassigned variable
FcCandidates(st, new_var) ==
    {c \in Range(conOrder) :
        /\ new_var # NoVar => new_var \in c.scope
        /\ Cardinality({u \in c.scope : st.av[u] = None}) = 1}

\* the unassigned variable of the candidate c
SoleUnassigned(st, c) == CHOOSE u \in c.scope : st.av[u] = None

\* c holds of the values assigned in st with x for its unassigned variable
HoldsWith(st, c, x) ==
    constraint_function(c, [u \in c.scope |->
                               IF st.av[u] = None THEN x ELSE st.av[u]])

(* C26: prop_fc examines only the constraints touching the new variable    *)
(* (all constraints on the initial call) that have exactly one unassigned  *)
(* variable u in their scope; when it reports success, every value left in *)
(* the current domain of u satisfies the constraint with the values        *)
(* assigned to the rest of the scope, and every value it pruned was pruned *)
(* from such a u and violates one of those constraints.                    *)
C26_ForwardChecked ==
    (Called /\ propagator = "FC") =>
        /\ \A pr \in Range(call.pruned) :
              \E c \in FcCandidates(call.pre, call.new_var) :
                  /\ SoleUnassigned(call.pre, c) = pr.var
                  /\ ~HoldsWith(call.pre, c, pr.val)
        /\ Present(call.pre.cd) \ Present(call.post.cd) = Range(call.pruned)
        /\ call.status =>
              \A c \in FcCandidates(call.pre, call.new_var) :
                  \A x \in Range(get_cur_domain(call.post, SoleUnassigned(call.pre, c))) :
                      HoldsWith(call.pre, c, x)

\* a call of prop_fc on a new variable has reported success after pruning
\* some values of a candidate's variable and leaving others
C26_Witness ==
    /\ Called
    /\ propagator = "FC"
    /\ call.new_var # NoVar
    /\ call.status
    /\ \E c \in FcCandidates(call.pre, call.new_var) :
          /\ \E pr \in Range(call.pruned) : pr.var = SoleUnassigned(call.pre, c)
          /\ get_cur_domain(call.post, SoleUnassigned(call.pre, c)) # <<>>

\* the values of v that are left once prop_fc, called in the state st, has
\* tried every value under the first j constraints of the sequence cs
FcLeftAfter(st, cs, j, v) ==
    {x \in Range(get_cur_domain(st, v)) :
        \A i \in 1..j : SoleUnassigned(st, cs[i]) = v => HoldsWith(st, cs[i], x)}

\* the positions of cs at which the variable just tried is left with an
\* empty current domain
FcWipeOuts(st, cs) ==
    {k \in 1..Len(cs) : FcLeftAfter(st, cs, k, SoleUnassigned(st, cs[k])) = {}}

\* the position at which a call of prop_fc in the state st stops: the
\* first wipe-out, or the last constraint when there is none
FcStop(st, cs) ==
    IF FcWipeOuts(st, cs) = {} THEN Len(cs)
    ELSE CHOOSE k \in FcWipeOuts(st, cs) : \A j \in FcWipeOuts(st, cs) : k <= j

(* C27: prop_fc reports failure as soon as, after all values of the sole   *)
(* unassigned variable of a constraint have been tried, the current domain *)
(* of that variable is empty: it returns failure with the values pruned so *)
(* far and prunes nothing under the remaining candidate constraints; it    *)
(* reports success only if no processed variable is left with an empty     *)
(* current domain.                                                         *)
C27_FailsAtFirstWipeOut ==
    (Called /\ propagator = "FC") =>
        /\ call.status <=> FcWipeOuts(call.pre, FcFiltered(call.pre, call.new_var)) = {}
        /\ \A v \in vars :
              call.pre.av[v] = None =>
                  Range(get_cur_domain(call.post, v))
                      = FcLeftAfter(call.pre, FcFiltered(call.pre, call.new_var),
                                    FcStop(call.pre, FcFiltered(call.pre, call.new_var)), v)
        /\ Range(call.pruned) = Present(call.pre.cd) \ Present(call.post.cd)
        /\ call.status =>
              \A c \in FcCandidates(call.pre, call.new_var) :
                  get_cur_domain(call.post, SoleUnassigned(call.pre, c)) # <<>>

\* a call of prop_fc has reported failure at a constraint that is not the
\* last candidate, and a later candidate has values left that violate it
C27_Witness ==
    /\ Called
    /\ propagator = "FC"
    /\ ~call.status
    /\ \E j \in 1..Len(FcFiltered(call.pre, call.new_var)) :
          /\ j > FcStop(call.pre, FcFiltered(call.pre, call.new_var))
          /\ \E x \in Range(get_cur_domain(call.post,
                     SoleUnassigned(call.pre, FcFiltered(call.pre, call.new_var)[j]))) :
                 ~HoldsWith(call.pre, FcFiltered(call.pre, call.new_var)[j], x)

\* the number of values the mask of st keeps for v once the first i pairs
\* of the list pruned are pruned
MaskLeft(st, pruned, i, v) ==
    Cardinality({x \in domain[v] :
                    /\ st.cd[v][x]
                    /\ \A j \in 1..i : pruned[j] # Pair(v, x)})

(* C28: prop_gac reports failure exactly when a prune leaves the pruned    *)
(* variable, assigned or not, with an empty current domain, and it returns *)
(* at once, so that the wiping prune is the last of the list; it reports   *)
(* success only when no variable has an empty current domain.  A prune     *)
(* that wipes a variable out leaves the queue empty and ends the loop with *)
(* nothing further pruned.                                                 *)
C28_GacFailsOnWipeOut ==
    (Called /\ propagator = "GAC") =>
        /\ ~call.status <=>
              /\ call.pruned # <<>>
              /\ get_cur_domain_size(call.post, call.pruned[Len(call.pruned)].var) = 0
        /\ \A i \in 1..(Len(call.pruned) - 1) :
              MaskLeft(call.pre, call.pruned, i, call.pruned[i].var) > 0
        /\ call.status => \A v \in vars : get_cur_domain_size(call.post, v) > 0
        /\ \A c \in Range(conOrder) : \A v \in c.scope :
              \A x \in Range(get_cur_domain(call.pre, v)) :
                  GacCheck([dwo |-> FALSE, queue |-> conOrder, pruned |-> <<>>,
                            st |-> call.pre], c, v, x).dwo
                      => /\ GacCheck([dwo |-> FALSE, queue |-> conOrder, pruned |-> <<>>,
                                      st |-> call.pre], c, v, x).queue = <<>>
                         /\ GacLoop(GacCheck([dwo |-> FALSE, queue |-> conOrder,
                                              pruned |-> <<>>, st |-> call.pre],
                                             c, v, x))
                                = Result(FALSE, <<Pair(v, x)>>,
                                         prune_value(call.pre, v, x))

\* a call of prop_gac has reported failure on wiping out a variable that
\* was assigned when the call began
C28_Witness ==
    /\ Called
    /\ propagator = "GAC"
    /\ ~call.status
    /\ call.pre.av[call.pruned[Len(call.pruned)].var] # None

(***************************************************************************)
(* prop_gac taken step by step: called on the CSP as constructed, then     *)
(* after each assignment of a value to the unassigned variable of smallest *)
(* current domain, as long as it reports success.                          *)
(***************************************************************************)
\* no constraint has been dequeued
NoCon == [name |-> "none", scope |-> {}]

\* prop_gac, lines 308-314: the locals at the first test of the while loop
GacEnter(st, new_var) ==
    [pc |-> "while", new_var |-> new_var, pre |-> st,
     queue |-> GacQueueInit(st, new_var), before |-> <<>>, pruned |-> <<>>,
     c |-> NoCon, variables |-> <<>>, variable |-> NoVar, values |-> <<>>,
     status |-> TRUE, pruning |-> FALSE]

\* prop_gac(csp) on the CSP as constructed
GacCallRoot ==
    /\ gac.pc = "none"
    /\ gac' = GacEnter(St, NoVar)
    /\ UNCHANGED <<vars, vars_to_cons, op, cur_domain_flag, cur_domain_cache,
                   sat_mappings, unsat_mappings,
                   domain, domOrder, rank, varOrder,
                   conOrder, propagator, cur_domain, assignedValue, errors,
                   unasgn_vars, stack, pc, ret, status, rootPrunings,
                   num_decisions, num_prunings, call, returned>>

\* var.assign(val) and prop_gac(csp, var), as bt_recurse does at lines
\* 167-177
GacCallNew ==
    /\ gac.pc = "idle"
    /\ \E pool \in {SelectSeq(IterVars(vars), LAMBDA v : ~is_assigned(St, v))} :
           /\ pool # <<>>
           /\ \E var \in {extract_mr_var(St, pool)} :
              \E val \in Range(get_cur_domain(St, var)) :
              \E st \in {assign(St, var, val)} :
                  /\ cur_domain' = st.cd
                  /\ assignedValue' = st.av
                  /\ errors' = st.err
                  /\ gac' = GacEnter(st, var)
    /\ UNCHANGED <<vars, vars_to_cons, op, cur_domain_flag, cur_domain_cache,
                   sat_mappings, unsat_mappings,
                   domain, domOrder, rank, varOrder,
                   conOrder, propagator,
                   unasgn_vars, stack, pc, ret, status, rootPrunings,
                   num_decisions, num_prunings, call, returned>>

\* prop_gac, lines 316-320: dequeue a constraint and sort its scope
GacDequeue ==
    /\ gac.pc = "while"
    /\ gac.queue # <<>>
    /\ gac' = [gac EXCEPT !.pc = "forvar",
                          !.c = Head(gac.queue),
                          !.queue = Tail(gac.queue),
                          !.before = gac.queue,
                          !.variables = GacSortedScope(St, Head(gac.queue)),
                          !.pruning = FALSE]
    /\ UNCHANGED <<vars, vars_to_cons, op, cur_domain_flag, cur_domain_cache,
                   sat_mappings, unsat_mappings,
                   domain, domOrder, rank, varOrder,
                   conOrder, propagator, cur_domain, assignedValue, errors,
                   unasgn_vars, stack, pc, ret, status, rootPrunings,
                   num_decisions, num_prunings, call, returned>>

\* prop_gac, lines 319-321: the next variable of the scope and its values
GacNextVariable ==
    /\ gac.pc = "forvar"
    /\ gac.variables # <<>>
    /\ gac' = [gac EXCEPT !.pc = "forval",
                          !.variable = Head(gac.variables),
                          !.variables = Tail(gac.variables),
                          !.values = get_cur_domain(St, Head(gac.variables)),
                          !.pruning = FALSE]
    /\ UNCHANGED <<vars, vars_to_cons, op, cur_domain_flag, cur_domain_cache,
                   sat_mappings, unsat_mappings,
                   domain, domOrder, rank, varOrder,
                   conOrder, propagator, cur_domain, assignedValue, errors,
                   unasgn_vars, stack, pc, ret, status, rootPrunings,
                   num_decisions, num_prunings, call, returned>>

\* prop_gac, line 319: the scope is exhausted
GacScopeDone ==
    /\ gac.pc = "forvar"
    /\ gac.variables = <<>>
    /\ gac' = [gac EXCEPT !.pc = "while", !.pruning = FALSE]
    /\ UNCHANGED <<vars, vars_to_cons, op, cur_domain_flag, cur_domain_cache,
                   sat_mappings, unsat_mappings,
                   domain, domOrder, rank, varOrder,
                   conOrder, propagator, cur_domain, assignedValue, errors,
                   unasgn_vars, stack, pc, ret, status, rootPrunings,
                   num_decisions, num_prunings, call, returned>>

\* prop_gac, lines 321-340: the next value of the variable
GacValue ==
    /\ gac.pc = "forval"
    /\ gac.values # <<>>
    /\ \E g \in {GacCheck([dwo |-> FALSE, queue |-> gac.queue,
                           pruned |-> gac.pruned, st |-> St],
                          gac.c, gac.variable, Head(gac.values))} :
           /\ cur_domain' = g.st.cd
           /\ assignedValue' = g.st.av
           /\ errors' = g.st.err
           /\ gac' = [gac EXCEPT !.pc = IF g.dwo THEN "failed" ELSE "forval",
                                 !.queue = g.queue,
                                 !.before = gac.queue,
                                 !.pruned = g.pruned,
                                 !.values = Tail(gac.values),
                                 !.status = ~g.dwo,
                                 !.pruning = g.pruned # gac.pruned]
    /\ UNCHANGED <<vars, vars_to_cons, op, cur_domain_flag, cur_domain_cache,
                   sat_mappings, unsat_mappings,
                   domain, domOrder, rank, varOrder,
                   conOrder, propagator,
                   unasgn_vars, stack, pc, ret, status, rootPrunings,
                   num_decisions, num_prunings, call, returned>>

\* prop_gac, line 321: the values are exhausted
GacValuesDone ==
    /\ gac.pc = "forval"
    /\ gac.values = <<>>
    /\ gac' = [gac EXCEPT !.pc = "forvar", !.pruning = FALSE]
    /\ UNCHANGED <<vars, vars_to_cons, op, cur_domain_flag, cur_domain_cache,
                   sat_mappings, unsat_mappings,
                   domain, domOrder, rank, varOrder,
                   conOrder, propagator, cur_domain, assignedValue, errors,
                   unasgn_vars, stack, pc, ret, status, rootPrunings,
                   num_decisions, num_prunings, call, returned>>

\* prop_gac, lines 316 and 341: the queue is empty
GacReturn ==
    /\ gac.pc = "while"
    /\ gac.queue = <<>>
    /\ gac' = [gac EXCEPT !.pc = "idle", !.pruning = FALSE]
    /\ UNCHANGED <<vars, vars_to_cons, op, cur_domain_flag, cur_domain_cache,
                   sat_mappings, unsat_mappings,
                   domain, domOrder, rank, varOrder,
                   conOrder, propagator, cur_domain, assignedValue, errors,
                   unasgn_vars, stack, pc, ret, status, rootPrunings,
                   num_decisions, num_prunings, call, returned>>

NextG ==
    \/ GacCallRoot
    \/ GacCallNew
    \/ GacDequeue
    \/ GacNextVariable
    \/ GacScopeDone
    \/ GacValue
    \/ GacValuesDone
    \/ GacReturn

InitG ==
    \E d \in 1..MaxVal, cl \in ConLists(VarNames, MaxCons) :
    \E vo \in {<<"A", "B", "C">>, <<"C", "B", "A">>}, do \in DomOrders(VarNames, d) :
        InitCSP(VarNames, d, cl, "GAC", vo, do, [v \in VarNames |-> 1])

SpecG == InitG /\ [][NextG]_vars_all

\* the call taken step by step has returned what prop_gac returns
GacStepsAgree ==
    gac.pc \in {"idle", "failed"} =>
        Result(gac.status, gac.pruned, St) = prop_gac(gac.pre, gac.new_var)

(* C29: in prop_gac, after every prune of a value from a variable v that   *)
(* is not a wipe-out, every constraint touching v, the constraint being    *)
(* processed included, is in the queue, and at every step the queue holds  *)
(* each constraint at most once.                                           *)
C29_QueueAfterPrune ==
    gac.pc # "none" =>
        /\ NoDup(gac.queue)
        /\ (gac.pruning /\ gac.pc # "failed") =>
              /\ gac.c \in Range(gac.queue)
              /\ \A c \in Range(conOrder) :
                    gac.variable \in c.scope => c \in Range(gac.queue)

\* a value has just been pruned without a wipe-out, from a variable that
\* one constraint already queued touches and another not queued touches
C29_Witness ==
    /\ gac.pc = "forval"
    /\ gac.pruning
    /\ \E c \in Range(gac.before) : gac.variable \in c.scope
    /\ \E c \in Range(gac.queue) \ Range(gac.before) : gac.variable \in c.scope

\* the solutions that agree with the assignments and the current domains
\* of the state st
SolutionsWithin(st) ==
    {m \in Solutions : \A v \in vars : m[v] \in Range(get_cur_domain(st, v))}

(* C30: no propagator removes a value that belongs to a solution: when a   *)
(* complete assignment satisfies every constraint and agrees with the      *)
(* assignments and the current domains at the call of prop_fc or prop_gac, *)
(* the call reports success and prunes none of the (Variable, value) pairs *)
(* of that assignment.                                                     *)
C30_SolutionsKept ==
    (Called /\ propagator \in {"FC", "GAC"}) =>
        \A m \in SolutionsWithin(call.pre) :
            /\ call.status
            /\ \A v \in vars : Pair(v, m[v]) \notin Range(call.pruned)

\* a call of prop_gac has pruned while a solution agreed with the state it
\* was called in
C30_Witness ==
    /\ Called
    /\ propagator = "GAC"
    /\ call.pruned # <<>>
    /\ SolutionsWithin(call.pre) # {}

\* the variables the step assigns
NewlyAssigned == {v \in vars : assignedValue[v] = None /\ assignedValue'[v] # None}

(* C31: in one bt_search the propagator is called without argument exactly *)
(* once, as the first call, after the root reset and before any            *)
(* assignment; every later call has for argument the variable the driver   *)
(* has just assigned, and every assignment of the driver is followed at    *)
(* once by such a call, before any other assign, unassign or unprune.      *)
C31_CallConvention ==
    [][/\ call'.n # call.n =>
              /\ call'.n = call.n + 1
              /\ call'.new_var = NoVar <=> call.n = 0
              /\ call.n = 0 => pc = "root" /\ AllUnassigned /\ AllRestored
                                  /\ num_decisions = 0
              /\ call.n > 0 => /\ pc = "assigned"
                               /\ call'.new_var = Top.var
                               /\ assignedValue[Top.var] # None
                               /\ call'.pre = St
       /\ (call'.n = call.n /\ NewlyAssigned # {}) =>
              /\ call.n > 0
              /\ pc' = "assigned"
              /\ NewlyAssigned = {Top.var}
              /\ cur_domain' = cur_domain
       /\ pc = "assigned" => call'.n = call.n + 1
      ]_vars_all

\* the propagator has been called on the variable of a second decision
C31_Witness ==
    /\ call.n >= 3
    /\ call.new_var # NoVar
    /\ call.pre.av[call.new_var] # None
    /\ num_decisions >= 2

(* C32: once a call of bt_recurse returns True the success goes upward at  *)
(* once: no further value is tried at any level, no variable is assigned   *)
(* or unassigned, no propagator is called and no value is pruned between   *)
(* that return and the end of bt_search; only the values the root call     *)
(* pruned are unpruned.                                                    *)
C32_SuccessGoesUp ==
    [][/\ (pc = "return" /\ ret) =>
              /\ ret'
              /\ pc' \in {"return", "finish"}
              /\ pc' = "finish" => status'
              /\ Len(stack') = Len(stack) - 1
              /\ assignedValue' = assignedValue
              /\ cur_domain' = cur_domain
              /\ errors' = errors
              /\ unasgn_vars' = unasgn_vars
              /\ num_decisions' = num_decisions
              /\ call' = call
       /\ (pc = "finish" /\ status) =>
              /\ pc' = "done"
              /\ status'
              /\ assignedValue' = assignedValue
              /\ errors' = errors
              /\ num_decisions' = num_decisions
              /\ call' = call
              /\ Present(cur_domain') = Present(cur_domain) \cup Range(rootPrunings)
      ]_vars_all

\* a success has gone up through two levels to the end of bt_search, and
\* the root call had pruned
C32_Witness ==
    /\ pc = "done"
    /\ status
    /\ num_decisions >= 2
    /\ rootPrunings # <<>>

\* i is the place in the pool of the variable MRV selects in the state st:
\* none of the pool has a smaller current domain, and none before it has
\* one as small
MrvPlace(st, pool, i) ==
    /\ \A j \in 1..Len(pool) :
          get_cur_domain_size(st, pool[j]) >= get_cur_domain_size(st, pool[i])
    /\ \A j \in 1..(i - 1) :
          get_cur_domain_size(st, pool[j]) > get_cur_domain_size(st, pool[i])

(* C33: at a node with a non-empty pool extract_mr_var removes from the    *)
(* pool and returns a variable whose current domain is of minimal size     *)
(* among the pooled variables, the first such in pool order on a tie; and  *)
(* when all its values have failed, exactly that variable is put back in   *)
(* the pool.                                                               *)
C33_MrvSelection ==
    [][/\ (pc = "enter" /\ unasgn_vars # <<>>) =>
              \E i \in 1..Len(unasgn_vars) :
                  /\ MrvPlace(St, unasgn_vars, i)
                  /\ stack'[Len(stack')].var = unasgn_vars[i]
                  /\ unasgn_vars' = SubSeq(unasgn_vars, 1, i - 1)
                                       \o SubSeq(unasgn_vars, i + 1, Len(unasgn_vars))
       /\ (pc = "loop" /\ Top.vals = <<>>) =>
              /\ unasgn_vars' = unasgn_vars \o <<Top.var>>
              /\ Top.var \notin Range(unasgn_vars)
              /\ ~ret'
       /\ (pc \notin {"enter", "loop", "start"} \/ (pc = "loop" /\ Top.vals # <<>>)) =>
              unasgn_vars' = unasgn_vars
      ]_vars_all

\* every value of a variable has failed and it is back in the pool; it had
\* been selected while a pooled variable had a larger current domain
C33_Witness ==
    /\ pc = "return"
    /\ ~ret
    /\ Top.var # NoVar
    /\ unasgn_vars[Len(unasgn_vars)] = Top.var
    /\ \E u \in Top.entry.pool :
          get_cur_domain_size(Top.entry, u) > get_cur_domain_size(Top.entry, Top.var)

(***************************************************************************)
(* bt_search run to its end, under every propagator, on the CSPs of Init   *)
(* in one iteration order: the driver is sequential code, so a step that   *)
(* can be taken is taken.                                                  *)
(***************************************************************************)
InitL ==
    \E d \in 1..MaxVal, p \in Propagators, cl \in ConLists(VarNames, MaxCons) :
        InitCSP(VarNames, d, cl, p, <<"A", "B", "C">>,
                [v \in VarNames |-> [i \in 1..d |-> i]], [v \in VarNames |-> 1])

SpecL == InitL /\ [][Next]_vars_all /\ WF_vars_all(Next)

\* the deepest recursion bt_recurse may reach
MaxDepth == Cardinality(VarNames) + 1

InitGL ==
    \E d \in 1..MaxVal :
    \E cl \in {l \in ConLists(VarNames, MaxCons) :
                  l = SelectSeq(Catalog, LAMBDA c : c \in Range(l))} :
        InitCSP(VarNames, d, cl, "GAC", <<"A", "B", "C">>,
                [v \in VarNames |-> [i \in 1..d |-> i]], [v \in VarNames |-> 1])

SpecGL == InitGL /\ [][NextG]_vars_all /\ WF_vars_all(NextG)

\* a call of prop_gac is in progress
GacRunning == gac.pc \in {"while", "forvar", "forval"}

(* C35: every call of prop_gac terminates: the queue becomes empty or a    *)
(* wipe-out is reported, because a constraint is enqueued again only after *)
(* a prune and each (Variable, value) pair is pruned at most once in the   *)
(* call.                                                                   *)
C35_GacTerminates ==
    /\ GacRunning ~> (gac.pc \in {"idle", "failed"})
    /\ [](gac.pc = "idle" => gac.queue = <<>>)
    /\ [](gac.pc # "none" => NoDup(gac.pruned))
    /\ [][(GacRunning /\ ~(Range(gac'.queue) \subseteq Range(gac.queue))) =>
             /\ gac'.pruning
             /\ Len(gac'.pruned) = Len(gac.pruned) + 1]_vars_all

\* a call that enqueued a constraint again after a prune has returned with
\* an empty queue
C35_Witness ==
    /\ gac.pc = "idle"
    /\ gac.queue = <<>>
    /\ Len(gac.pruned) >= 2
    /\ gac.new_var # NoVar

(***************************************************************************)
(* One Variable with every method of its interface called in any order:    *)
(* the methods of NextV, add_domain_values, and the two getters that go    *)
(* through the cached list.                                                *)
(***************************************************************************)
\* the values add_domain_values is called with: one the largest domain
\* starts with, one no domain starts with
AddVals == {MaxVal, MaxVal + 1}

\* the lists add_domain_values is called with
AddLists ==
    {<<>>} \cup {<<x>> : x \in AddVals} \cup {<<x, y>> : x \in AddVals, y \in AddVals}

\* the keys of the mask after the loop of add_domain_values: a new key goes
\* to the end, a key already there keeps its place
RECURSIVE AddKeys(_, _)
AddKeys(order, values) ==
    IF values = <<>> THEN order
    ELSE AddKeys(IF Head(values) \in Range(order) THEN order
                 ELSE Append(order, Head(values)), Tail(values))

\* add_domain_values on the mask: every value of the list is set present
add_domain_values(st, v, values) ==
    [st EXCEPT !.cd[v] = [x \in DOMAIN @ \cup Range(values) |->
                              IF x \in Range(values) THEN TRUE ELSE @[x]]]

VarAddDomainValues ==
    \E v \in vars, values \in AddLists :
        /\ domain' = [domain EXCEPT ![v] = @ \cup Range(values)]
        /\ domOrder' = [domOrder EXCEPT ![v] = AddKeys(@, values)]
        /\ cur_domain' = add_domain_values(St, v, values).cd
        /\ cur_domain_flag' = [cur_domain_flag EXCEPT ![v] = TRUE]
        /\ op' = [name |-> "add_domain_values", var |-> v, val |-> values,
                  pre |-> St, post |-> add_domain_values(St, v, values),
                  failed |-> FALSE, domain |-> domain[v]]
        /\ UNCHANGED <<vars, vars_to_cons, gac, sat_mappings, unsat_mappings,
                       cur_domain_cache, rank, varOrder,
                       conOrder, propagator, assignedValue, errors, unasgn_vars,
                       stack, pc, ret, status, rootPrunings, num_decisions,
                       num_prunings, call, returned>>

\* a faulty refresh that returns the cached list whatever the flag says; C36
\* tells it apart
CachedCurDomain_NoRefresh(v) ==
    IF assignedValue[v] # None
    THEN [result |-> <<assignedValue[v]>>, flag |-> cur_domain_flag[v],
          cache |-> cur_domain_cache[v]]
    ELSE [result |-> cur_domain_cache[v], flag |-> FALSE,
          cache |-> cur_domain_cache[v]]

\* Variable.get_cur_domain as the code runs it: the list it returns, and the
\* flag and the cached list it leaves
CachedCurDomain(v) ==
    IF assignedValue[v] # None
    THEN [result |-> <<assignedValue[v]>>, flag |-> cur_domain_flag[v],
          cache |-> cur_domain_cache[v]]
    ELSE IF cur_domain_flag[v]
    THEN [result |-> MaskList(St, v), flag |-> FALSE, cache |-> MaskList(St, v)]
    ELSE [result |-> cur_domain_cache[v], flag |-> FALSE,
          cache |-> cur_domain_cache[v]]

\* Variable.get_cur_domain_size as the code runs it
CachedCurDomainSize(v) ==
    IF assignedValue[v] # None
    THEN [result |-> 1, flag |-> cur_domain_flag[v], cache |-> cur_domain_cache[v]]
    ELSE IF ~cur_domain_flag[v]
    THEN [result |-> Len(cur_domain_cache[v]), flag |-> FALSE,
          cache |-> cur_domain_cache[v]]
    ELSE [result |-> Len(CachedCurDomain(v).result),
          flag |-> CachedCurDomain(v).flag, cache |-> CachedCurDomain(v).cache]

\* a getter called on v answered g
VarGet(name, v, g) ==
    /\ cur_domain_flag' = [cur_domain_flag EXCEPT ![v] = g.flag]
    /\ cur_domain_cache' = [cur_domain_cache EXCEPT ![v] = g.cache]
    /\ op' = [name |-> name, var |-> v, val |-> None, pre |-> St, post |-> St,
              failed |-> FALSE, result |-> g.result]
    /\ UNCHANGED <<vars, vars_to_cons, gac, sat_mappings, unsat_mappings,
                   domain, domOrder, rank, varOrder,
                   conOrder, propagator, cur_domain, assignedValue, errors,
                   unasgn_vars, stack, pc, ret, status, rootPrunings,
                   num_decisions, num_prunings, call, returned>>

VarGetCurDomain ==
    \E v \in vars : VarGet("get_cur_domain", v, CachedCurDomain(v))

VarGetCurDomainSize ==
    \E v \in vars : VarGet("get_cur_domain_size", v, CachedCurDomainSize(v))

NextW ==
    \/ VarAssign
    \/ VarUnassign
    \/ VarPrune
    \/ VarUnprune
    \/ VarRestore
    \/ VarAddDomainValues
    \/ VarGetCurDomain
    \/ VarGetCurDomainSize

InitW ==
    \E d \in 1..MaxVal :
        InitCSP({"A"}, d, <<>>, "BT", <<"A">>,
                [v \in {"A"} |-> [i \in 1..d |-> i]], [v \in {"A"} |-> 1])

SpecW == InitW /\ [][NextW]_vars_all

\* the values of v whose mask entry is present
MaskPresent(v) == {x \in DOMAIN cur_domain[v] : cur_domain[v][x]}

\* what get_cur_domain has to return on v
CurrentValues(v) ==
    IF assignedValue[v] # None THEN {assignedValue[v]} ELSE MaskPresent(v)

(* C36: cache coherence. After any sequence of add_domain_values,          *)
(* prune_value, unprune_value, restore_cur_domain, assign and unassign,    *)
(* get_cur_domain() returns exactly the assigned value if the variable is  *)
(* assigned and exactly the values whose mask entry is present otherwise,  *)
(* each once; get_cur_domain_size() is the number of values                *)
(* get_cur_domain() returns; a cached list the flag declares fresh is the  *)
(* list of the present values.                                             *)
C36_CacheCoherent ==
    /\ \A v \in vars :
           /\ Range(CachedCurDomain(v).result) = CurrentValues(v)
           /\ NoDup(CachedCurDomain(v).result)
           /\ CachedCurDomainSize(v).result = Len(CachedCurDomain(v).result)
           /\ ~cur_domain_flag[v] => /\ Range(cur_domain_cache[v]) = MaskPresent(v)
                                     /\ NoDup(cur_domain_cache[v])
    /\ OpIs("get_cur_domain") =>
           /\ Range(op.result) = CurrentValues(op.var)
           /\ NoDup(op.result)
    /\ OpIs("get_cur_domain_size") =>
           op.result = Cardinality(CurrentValues(op.var))

\* the getter has just rebuilt the list of a variable that has a pruned
\* value and a value added after its construction
C36_Witness ==
    /\ OpIs("get_cur_domain")
    /\ assignedValue[op.var] = None
    /\ cur_domain_cache[op.var] = op.result
    /\ \E x \in domain[op.var] : ~cur_domain[op.var][x]
    /\ MaxVal + 1 \in Range(op.result)

(* C37: over any sequence of operations called with values of the domain,  *)
(* an assigned value is a value of the domain and was in the current       *)
(* domain when assign was called (the variable was unassigned and the mask *)
(* entry of the value present), and the current domain is a subset of the  *)
(* domain.                                                                 *)
C37_AssignedWithinDomain ==
    /\ [](\A v \in vars :
              /\ assignedValue[v] # None => assignedValue[v] \in domain[v]
              /\ CurrentValues(v) \subseteq domain[v]
              /\ Range(CachedCurDomain(v).result) \subseteq domain[v]
              /\ DOMAIN cur_domain[v] = domain[v])
    /\ [][\A v \in vars :
              (assignedValue'[v] # None /\ assignedValue'[v] # assignedValue[v]) =>
                  /\ op'.name = "assign" /\ op'.var = v
                  /\ op'.val = assignedValue'[v]
                  /\ assignedValue[v] = None
                  /\ assignedValue'[v] \in MaskPresent(v)
                  /\ assignedValue'[v] \in Range(CachedCurDomain(v).result)]_vars_all

\* a value added after the construction is assigned while another value of
\* the domain is pruned
C37_Witness ==
    /\ OpIs("assign") /\ ~op.failed
    /\ assignedValue[op.var] = MaxVal + 1
    /\ \E x \in domain[op.var] : ~cur_domain[op.var][x]

(* C38: add_domain_values(vals) adds every value of vals to the domain and *)
(* makes each newly added value present; it changes the mask only for      *)
(* values that were not in the domain (a value already in the domain keeps *)
(* its pruned or present state) and leaves the assignment unchanged; no    *)
(* operation removes a value from the domain.                              *)
C38_AddDomainValuesFrame ==
    /\ [](OpIs("add_domain_values") =>
              /\ domain[op.var] = op.domain \cup Range(op.val)
              /\ \A x \in Range(op.val) \ op.domain : cur_domain[op.var][x]
              /\ \A x \in op.domain : cur_domain[op.var][x] = op.pre.cd[op.var][x]
              /\ assignedValue = op.pre.av)
    /\ [][\A v \in vars : domain[v] \subseteq domain'[v]]_vars_all


(***************************************************************************)
(* Constraint.check_mapping and Constraint.has_support with the caches     *)
(* sat_mappings and unsat_mappings, called in any order between calls of   *)
(* prune_value and unprune_value that change a current domain.             *)
(***************************************************************************)
\* the caches of the constraint c
MemoOf(c) ==
    [sat   |-> {p[2] : p \in {q \in sat_mappings : q[1] = c.name}},
     unsat |-> {p[2] : p \in {q \in unsat_mappings : q[1] = c.name}}]

NoMemo == [sat |-> {}, unsat |-> {}]

\* a faulty check_mapping that answers True for every mapping it has seen;
\* C39 tells it apart
CheckMappingCall_AnySeen(memo, c, m) ==
    IF m \in memo.sat \cup memo.unsat
    THEN [result |-> TRUE, sat |-> memo.sat, unsat |-> memo.unsat]
    ELSE IF constraint_function(c, m)
    THEN [result |-> TRUE, sat |-> memo.sat \cup {m}, unsat |-> memo.unsat]
    ELSE [result |-> FALSE, sat |-> memo.sat, unsat |-> memo.unsat \cup {m}]

\* Constraint.check_mapping as the code runs it on the caches memo: the
\* value it returns and the caches it leaves
CheckMappingCall(memo, c, m) ==
    IF m \in memo.sat /\ m \notin memo.unsat
    THEN [result |-> TRUE, sat |-> memo.sat, unsat |-> memo.unsat]
    ELSE IF constraint_function(c, m)
    THEN [result |-> TRUE, sat |-> memo.sat \cup {m}, unsat |-> memo.unsat]
    ELSE [result |-> FALSE, sat |-> memo.sat, unsat |-> memo.unsat \cup {m}]

RECURSIVE ConcatAll(_)
ConcatAll(ss) == IF ss = <<>> THEN <<>> ELSE Head(ss) \o ConcatAll(Tail(ss))

\* itertools.product of the lists doms, in its order: the last list runs
\* fastest
RECURSIVE ProductList(_)
ProductList(doms) ==
    IF doms = <<>> THEN << <<>> >>
    ELSE The({ConcatAll([j \in 1..Len(Head(doms)) |->
                            [i \in 1..Len(rest) |-> <<Head(doms)[j]>> \o rest[i]]]) :
              rest \in {ProductList(Tail(doms))}})

\* any(map(check_mapping, ...)) over the mappings ms: it stops at the first
\* that holds
RECURSIVE HasSupportScan(_, _, _)
HasSupportScan(memo, c, ms) ==
    IF ms = <<>> THEN [result |-> FALSE, sat |-> memo.sat, unsat |-> memo.unsat]
    ELSE The({IF r.result THEN r
              ELSE HasSupportScan([sat |-> r.sat, unsat |-> r.unsat], c, Tail(ms)) :
              r \in {CheckMappingCall(memo, c, Head(ms))}})

\* Constraint.has_support as the code runs it on the caches memo; order is
\* the order the set scope is iterated in
HasSupportCall(memo, st, c, var, val, order) ==
    IF var \notin c.scope
    THEN [result |-> TRUE, sat |-> memo.sat, unsat |-> memo.unsat]
    ELSE IF Cardinality(c.scope) = 1
    THEN [result |-> constraint_function(c, [u \in {var} |-> val]),
          sat |-> memo.sat, unsat |-> memo.unsat]
    ELSE LET tuples == ProductList([i \in 1..Len(order) |->
                                       get_cur_domain(st, order[i])])
             place(u) == CHOOSE i \in 1..Len(order) : order[i] = u
         IN  HasSupportScan(memo, c,
                 [k \in 1..Len(tuples) |-> [u \in c.scope |-> tuples[k][place(u)]]])

\* a call on the constraint c answered r
ConCall(name, c, x, r) ==
    /\ sat_mappings' = sat_mappings \cup {<<c.name, m>> : m \in r.sat}
    /\ unsat_mappings' = unsat_mappings \cup {<<c.name, m>> : m \in r.unsat}
    /\ op' = [name |-> name, con |-> c, val |-> x, result |-> r.result,
              cached |-> r.result /\ r.sat = MemoOf(c).sat /\ r.unsat = MemoOf(c).unsat]
    /\ UNCHANGED <<vars, vars_to_cons, gac, cur_domain_flag, cur_domain_cache,
                   domain, domOrder, rank, varOrder, conOrder, propagator,
                   cur_domain, assignedValue, errors, unasgn_vars, stack, pc, ret,
                   status, rootPrunings, num_decisions, num_prunings, call, returned>>

ConCheckMapping ==
    \E c \in Range(conOrder) : \E m \in [c.scope -> Vals] :
        ConCall("check_mapping", c, m, CheckMappingCall(MemoOf(c), c, m))

ConHasSupport ==
    \E c \in Range(conOrder), var \in vars : \E val \in domain[var] :
    \E order \in Perms(c.scope) :
        ConCall("has_support", c, Pair(var, val),
                HasSupportCall(MemoOf(c), St, c, var, val, order))

\* between the calls on the constraint the current domain of B changes
ConPrune ==
    \E x \in domain["B"] : VarCall("prune_value", "B", x, prune_value(Clean, "B", x))

ConUnprune ==
    \E x \in domain["B"] : VarCall("unprune_value", "B", x, unprune_value(Clean, "B", x))

NextM ==
    \/ ConCheckMapping
    \/ ConHasSupport
    \/ ConPrune
    \/ ConUnprune

InitM ==
    \E d \in 1..MaxVal : \E c \in {k \in Range(Catalog) : k.name \in {"A<B", "B>=2"}} :
        InitCSP({"A", "B"}, d, <<c>>, "GAC", <<"A", "B">>,
                [v \in {"A", "B"} |-> [i \in 1..d |-> i]], [v \in {"A", "B"} |-> 1])

SpecM == InitM /\ [][NextM]_vars_all

(* C39: memoization is transparent. After any sequence of has_support and  *)
(* check_mapping calls on a constraint with a pure predicate,              *)
(* check_mapping(m) returns exactly predicate(m) for every mapping m,      *)
(* sat_mappings and unsat_mappings are disjoint, and has_support returns   *)
(* what it returns with empty caches.                                      *)
C39_MemoTransparent ==
    /\ \A c \in Range(conOrder) :
           /\ \A m \in [c.scope -> Vals] :
                  CheckMappingCall(MemoOf(c), c, m).result = constraint_function(c, m)
           /\ MemoOf(c).sat \cap MemoOf(c).unsat = {}
           /\ \A var \in vars : \A val \in domain[var] : \A order \in Perms(c.scope) :
                  HasSupportCall(MemoOf(c), St, c, var, val, order).result
                      = HasSupportCall(NoMemo, St, c, var, val, order).result
    /\ OpIs("check_mapping") => op.result = constraint_function(op.con, op.val)
    /\ OpIs("has_support") =>
           op.result = has_support(St, op.con, op.val.var, op.val.val)

\* has_support has just been answered from the caches alone, which hold
\* mappings of both kinds, while a value is pruned
C39_Witness ==
    /\ OpIs("has_support") /\ op.cached
    /\ MemoOf(op.con).sat # {}
    /\ MemoOf(op.con).unsat # {}
    /\ \E v \in vars : \E x \in domain[v] : ~cur_domain[v][x]
=============================================================================
